---------------------------- MODULE Spec2Model ----------------------------
(***************************************************************************)
(* A model of the file-streaming transport of harsh-quidich/data-transfer: *)
(*   - the sender   src/pyfast_send_aftername_v2.py                         *)
(*   - the receiver src/pyfast_recv_v2.py                                   *)
(*                                                                         *)
(* The program is modelled in groups of variables, one per part of the     *)
(* code, each with its own specifications:                                 *)
(*   SpecWire    one sender worker thread and one receiver worker talking  *)
(*               over TCP connections (send_file, worker_thread, the wire  *)
(*               part of handle_client), byte by byte;                     *)
(*   SpecTail    the sender's backlog and tail scans (main), SpecScan the  *)
(*               same with a main thread that keeps running;               *)
(*   SpecAgg     receiver workers updating state.json and the aggregator   *)
(*               polling it, SpecFleet the same with receiver processes    *)
(*               starting at any time;                                     *)
(*   SpecCleanup the per-capture cleanup coordinator of handle_client;     *)
(*   SpecStore   workers writing one final_path through its .part file;    *)
(*   SpecBridge  the trigger loop of src/run_senders_from_config.py;       *)
(*   SpecPool    the sender's queue, its worker threads and main's join,   *)
(*               against a receiver with a given number of workers;        *)
(*   SpecResend  a sender thread whose attempts may fail, and the          *)
(*               receiver's count of the files it has completed;           *)
(*   SpecReplay  the receiver run with and without --verbose on one input; *)
(*   SpecDerive  the keys, directories and capture ids that the bridge,    *)
(*               the receiver worker and the aggregator derive;            *)
(*   SpecLaunch  launch_senders_with_suffix with a wall-clock timeout.     *)
(***************************************************************************)
EXTENDS Integers, Sequences, FiniteSets, TLC

VARIABLES
    \* ---- wire group -------------------------------------------------
    wcfg,       \* args of both programs: verbose, use_dest_paths, expect_count_first
                \* (receiver); dragonfly_key, side, dest_path (sender)
    sfiles,     \* the queue items the sender worker thread gets, in order
    sidx,       \* index of the item the worker thread is on
    spc,        \* the worker thread's position
    soffset,    \* send_file: offset
    sretry,     \* send_file: retry_count
    wretry,     \* worker_thread: retry_count
    sconn,      \* worker_thread: sock (0 = None, else a connection id)
    counters,   \* counters["files"], counters["bytes"]
    errq,       \* error_queue: indices of the files reported failed
    spayload,   \* payload bytes written after the size field of the record
    conns,      \* the TCP connections, by id
    rconn,      \* the connection handle_client is on
    rpc,        \* handle_client's position
    rfi,        \* which length-prefixed field is being read (1..4)
    rneed,      \* bytes recvall is waiting for
    rflds,      \* the decoded fields name, dest_path, dragonfly_key, side
    rremaining, \* remaining
    rleft,      \* remaining_files (read only with expect_count_first)
    rfsys,      \* the receiver's files under out_dir: path -> content
    \* ---- tail group -------------------------------------------------
    tcfg,       \* args: start_after, max_files, once, lookahead
    srcdir,     \* the names in src_dir that match the pattern
    created,    \* how many files the producer has created so far
    tpc,        \* main's position
    names,      \* the list discover_once returned
    ni,         \* position of the for loop in names
    last_name,  \* last_name
    enqueued_files, \* enqueued_files
    putlog,     \* the names passed to q.put, in order
    wst,        \* the position inside wait_for_file_and_check_complete
    \* ---- fleet group: receiver processes, state.json, aggregator ------
    fcfg,       \* args.emit_threshold, and how many files the senders deliver
    pst,        \* each receiver process: off, imported, ready, running
    is_leader,  \* main: is_leader
    gdir,       \* .global_recv_state exists
    statelock,  \* state.lock exists
    leaderlock, \* leader.lock exists
    statefile,  \* state.json: the records, in insertion order
    wpc,        \* each process's worker: its position in the counter update
    wball,      \* the worker's ball_id
    wattempts,  \* turns of `for _ in range(5)` done
    wg,         \* the worker's gstate
    apc,        \* each process's aggregator thread: its position
    to_publish, \* the aggregator's to_publish
    published,  \* the events sent on the pub socket, in order
    acked,      \* per capture: files received and ACKed
    holders,    \* who is between with_file_lock = True and release_file_lock
    crossed,    \* the captures, in the order their stored count reached the threshold
    netio,      \* per process: ACKs sent, redis sets and pub sends made so far
    \* ---- cleanup group: per-capture cleanup across workers ------------
    ccfg,       \* args: out_dir, verbose, cleanup_max_count, cleanup_ttl_seconds
    clock,      \* time.time()
    cfs,        \* the directories made and the trees removed, as normalized paths
    sent,       \* the sentinel files <ball_id>.done: path -> {count, ts}
    slocks,     \* the lock files <ball_id>.done.lock that exist
    cpc,        \* each worker's position in handle_client
    cdest,      \* dest_path of the record the worker is on
    cfirst,     \* dest_path of the first record of the worker's connection
    cstart,     \* the time that first record arrived
    chave,      \* have_lock
    cstate,     \* state
    cnow,       \* now
    cshould,    \* should_cleanup
    clatch,     \* did_cleanup_for_ball
    crecs,      \* records received on the worker's connection
    cacks,      \* ACK bytes sent on the worker's connection
    nconn,      \* connections accepted so far
    deleted,    \* the shutil.rmtree calls made, in order
    \* ---- store group: workers writing one final_path through its .part --
    pcfg,       \* what is at final_path before the run: nothing, a file, a directory
    inodes,     \* the content of every file created, by inode
    plink,      \* the inode that tmp_path and final_path name (0 = no such file)
    ppc,        \* each worker's position in handle_client
    prec,       \* the record the worker is on (records are numbered as they begin)
    pneed,      \* remaining
    pfd,        \* the inode the worker's open file f writes to
    poff,       \* the file offset of f
    pold,       \* the inode final_path named when the record began
    nrec,       \* records begun so far
    pdone,      \* the records ACKed (the handler then goes on to the counter update)
    pfails,     \* the records whose handler ended in the except clause
    \* ---- bridge group: run_senders_from_config.py --zmq-sub --------------
    bcfg,       \* args: forward_pub
    bcount,     \* messages received on the SUB socket so far
    blast,      \* the message the last turn of the loop received
    spawned,    \* the calls of launch_senders_with_suffix made, in order
    forwarded,  \* the payloads sent on the forwarding PUB socket, in order
    \* ---- pool group: the sender's worker threads and its queue -----------
    kcfg,       \* args.conns, the receiver's --workers, the files of the backlog
    q,          \* the queue q: file numbers, 0 for None
    unfinished, \* q.unfinished_tasks: puts not yet matched by task_done
    mpc,        \* main's position
    menq,       \* enqueued_files
    thpc,        \* each worker thread's position
    titem,      \* item
    tretry,     \* retry_count
    tsock,      \* sock: 0 for None, 1 for a connected socket
    rserve,     \* the threads whose connection a receiver worker is handling
    tdone,      \* per file: calls of q.task_done() for it
    poisons,    \* per thread: None items received
    sentok,     \* the files whose ACK was read
    error_q,    \* the files put on error_queue
    kfiles,     \* counters["files"]
    tload,      \* per thread: the value of counters["files"] it has loaded
    kexit,      \* the exit status of the sender process (-1 while it runs)
    \* ---- resend group: one sender thread, its connection, one receiver worker
    ucfg,       \* the files of the backlog (all of one capture); use_dest_paths
    upc,        \* the worker thread's position
    uidx,       \* the file the thread is on (files are numbered as they are taken)
    uretry,     \* worker_thread: retry_count
    usock,      \* sock: 0 for None, 1 for a connected socket
    uwire,      \* the record sent and not yet read by handle_client (0 = none)
    uack,       \* ACK bytes sent and not yet read by send_file
    ustored,    \* the capture's count in state.json
    upaths,     \* the final_paths handle_client has written, by file
    ucounters,  \* counters["files"]
    uerrq,      \* the files put on error_queue
    \* ---- replay group: the receiver run twice on one input ----------------
    vrun,       \* 0: no replay; 1: the run with --verbose; 2: the run without
    vinput,     \* the connections and the bytes on them, as both runs get them
    vfirst,     \* what the run with --verbose left: the files, the ACKs sent
    \* ---- derive group: names and paths derived by bridge and receiver ----
    zop,        \* the function applied last ("none" before the first)
    zin,        \* its arguments
    zout,       \* what it returned
    \* ---- launch group: launch_senders_with_suffix with --timeout-secs -----
    lcams,      \* the cameras of the configuration that get a sender
    lpc,        \* run_sender_thread's position, by camera
    lproc,      \* the sender subprocess, by camera
    proc_map,   \* the cameras whose Popen object is in proc_map
    lresults,   \* results: the exit status stored, by camera ("none": no entry)
    lmain,      \* the position of launch_senders_with_suffix
    lexp,       \* the cameras whose subprocess was running when the timeout expired
    lret        \* its return value (-1 before it returns)

wireVars == <<wcfg, sfiles, sidx, spc, soffset, sretry, wretry, sconn, counters,
              errq, spayload, conns, rconn, rpc, rfi, rneed, rflds, rremaining,
              rleft, rfsys>>

tailVars == <<tcfg, srcdir, created, tpc, names, ni, last_name, enqueued_files,
              putlog, wst>>

fleetVars == <<fcfg, pst, is_leader, gdir, statelock, leaderlock, statefile, wpc, wball,
               wattempts, wg, apc, to_publish, published, acked, holders,
               crossed, netio>>

cleanVars == <<ccfg, clock, cfs, sent, slocks, cpc, cdest, cfirst, cstart, chave,
               cstate, cnow, cshould, clatch, crecs, cacks, nconn, deleted>>

storeVars == <<pcfg, inodes, plink, ppc, prec, pneed, pfd, poff, pold, nrec,
               pdone, pfails>>

bridgeVars == <<bcfg, bcount, blast, spawned, forwarded>>

poolVars == <<kcfg, q, unfinished, mpc, menq, thpc, titem, tretry, tsock, rserve,
              tdone, poisons, sentok, error_q, kfiles, tload, kexit>>

resendVars == <<ucfg, upc, uidx, uretry, usock, uwire, uack, ustored, upaths,
                ucounters, uerrq>>

replayVars == <<vrun, vinput, vfirst>>

deriveVars == <<zop, zin, zout>>

launchVars == <<lcams, lpc, lproc, proc_map, lresults, lmain, lexp, lret>>

notWire ==
    <<replayVars, resendVars, poolVars, tailVars, fleetVars, cleanVars, storeVars, bridgeVars,
      deriveVars, launchVars>>
notTail ==
    <<replayVars, resendVars, poolVars, wireVars, fleetVars, cleanVars, storeVars, bridgeVars,
      deriveVars, launchVars>>
notFleet ==
    <<replayVars, resendVars, poolVars, wireVars, tailVars, cleanVars, storeVars, bridgeVars,
      deriveVars, launchVars>>
notClean ==
    <<replayVars, resendVars, poolVars, wireVars, tailVars, fleetVars, storeVars, bridgeVars,
      deriveVars, launchVars>>
notStore ==
    <<replayVars, resendVars, poolVars, wireVars, tailVars, fleetVars, cleanVars, bridgeVars,
      deriveVars, launchVars>>
notBridge ==
    <<replayVars, resendVars, wireVars, tailVars, fleetVars, cleanVars, storeVars, poolVars,
      deriveVars, launchVars>>
notPool ==
    <<replayVars, resendVars, wireVars, tailVars, fleetVars, cleanVars, storeVars, bridgeVars,
      deriveVars, launchVars>>
notResend ==
    <<replayVars, wireVars, tailVars, fleetVars, cleanVars, storeVars, bridgeVars, poolVars,
      deriveVars, launchVars>>
notReplay ==
    <<tailVars, fleetVars, cleanVars, storeVars, bridgeVars, poolVars, resendVars,
      deriveVars, launchVars>>
notDerive ==
    <<wireVars, tailVars, fleetVars, cleanVars, storeVars, bridgeVars, poolVars, resendVars,
      replayVars, launchVars>>
notLaunch ==
    <<wireVars, tailVars, fleetVars, cleanVars, storeVars, bridgeVars, poolVars, resendVars,
      replayVars, deriveVars>>

vars == <<wireVars, tailVars, fleetVars, cleanVars, storeVars, bridgeVars, poolVars,
          resendVars, replayVars, deriveVars, launchVars>>

(***************************************************************************)
(* Bounds of the model.                                                    *)
(***************************************************************************)
MaxSize == 8        \* file sizes 0..MaxSize
NFiles == 2         \* files in one sender session
MaxWidth == 2       \* digits in a frame number
MaxCreated == 2     \* files the producer creates during a session
NProcs == 2         \* receiver processes
MaxReceipts == 3    \* files received in all by a started fleet
MaxFleetReceipts == 2 \* files received in all while processes start
EmitThreshold == 2  \* --emit-threshold; 1..EmitThreshold while processes start
NWorkers == 2       \* receiver workers that share out_dir
MaxCount == 1       \* largest --cleanup-max-count
CleanupTTL == 2     \* the nonzero --cleanup-ttl-seconds
MaxTicks == 2       \* seconds that pass during a run
MaxConns == 2       \* connections accepted in all
MaxRecs == 2        \* records on one connection
MaxDepth == 3       \* components of a received dest_path
MaxPayloads == 2    \* records begun in all for one final_path
MaxAnnounced == 2   \* largest count a peer announces; it sends up to one record more
PayloadSize == 2    \* bytes of a payload
MaxMsgs == 2        \* trigger messages the bridge receives
Conns == 2          \* largest --conns of the sender, and --workers of the receiver
PoolFiles == 2      \* files of a sender's backlog
ResendFiles == 2    \* files of the backlog of a sender whose attempts may fail
MaxKeyLen == 6      \* characters of a stored dragonfly_key
Senders == 2        \* cameras of the configuration, one sender each

(***************************************************************************)
(* Program constants.                                                      *)
(***************************************************************************)
MAX_NAME == 4096
MAX_DEST == 4096
MAX_DRAGONFLY_KEY == 256
MAX_SIDE == 64
CHUNK == 1048576
chunk_size == 8388608
max_retries == 3
LockAttempts == 5
FrameDigits == 9

\* A value standing for every uint64 of 2^24 or more: larger than every cap
\* and than every number of bytes the model puts on a connection.
HugeLen == 256 * 65536

Min(a, b) == IF a < b THEN a ELSE b

RECURSIVE Zeros(_)
Zeros(n) == IF n = 0 THEN <<>> ELSE <<0>> \o Zeros(n - 1)

Take(s, n) == SubSeq(s, 1, n)
Drop(s, n) == SubSeq(s, n + 1, Len(s))

\* struct.pack("!Q", n): 8 bytes, big-endian (n < 2^24 in the model).
PackU64(n) ==
    <<0, 0, 0, 0, 0, (n \div 65536) % 256, (n \div 256) % 256, n % 256>>

\* struct.unpack("!Q", b)[0] of 8 bytes.
UnpackU64(b) ==
    IF \E i \in 1..5 : b[i] # 0 THEN HugeLen
    ELSE b[6] * 65536 + b[7] * 256 + b[8]

(***************************************************************************)
(* The wire group: connections.                                            *)
(*   data     bytes written by the sender, not yet read by the receiver    *)
(*   acks     ACK bytes written by the receiver, not yet read              *)
(*   sclosed  the sender closed its socket                                 *)
(*   rclosed  the receiver closed its socket (the `with conn` exit)        *)
(***************************************************************************)
NewConn == [data |-> <<>>, acks |-> 0, sclosed |-> FALSE, rclosed |-> FALSE]

CurFile == sfiles[sidx]

\* generate_dest_path: the name itself with an empty --dest-path, else
\* os.path.join(dest_path_prefix, rel_name) (47 is "/"; a name from
\* os.listdir holds no "/", so --preserve-structure gives the same path).
generate_dest_path(rel_name) ==
    IF wcfg.dest_path = <<>> THEN rel_name
    ELSE IF wcfg.dest_path[Len(wcfg.dest_path)] = 47
         THEN wcfg.dest_path \o rel_name
         ELSE wcfg.dest_path \o <<47>> \o rel_name

\* The bytes send_file writes before the payload: four length-prefixed
\* fields, then the size.
RecordHeader(f) ==
    PackU64(Len(f.name)) \o f.name
    \o PackU64(Len(generate_dest_path(f.name))) \o generate_dest_path(f.name)
    \o PackU64(Len(wcfg.key)) \o wcfg.key
    \o PackU64(Len(wcfg.side)) \o wcfg.side
    \o PackU64(Len(f.content))

\* sock.sendall / sock.sendfile of `bytes` on the worker's connection. Bytes
\* written to a connection the receiver has closed are dropped.
SockSend(bytes) ==
    conns' = [conns EXCEPT ![sconn].data =
                 IF conns[sconn].rclosed THEN @ ELSE @ \o bytes]

\* worker_thread: `if retry_count > max_retries`.
ExhaustedEarly(n) == n >= max_retries
Exhausted(n) == n > max_retries

\* worker_thread's `except Exception`: count the attempt, close the socket,
\* then either report the file on the error queue and go on with the next
\* item, or reconnect and run send_file on the same item again.
WorkerExcept ==
    /\ wretry' = wretry + 1
    /\ IF Exhausted(wretry + 1)
       THEN /\ conns' = [conns EXCEPT ![sconn].sclosed = TRUE]
            /\ sconn' = 0
            /\ errq' = Append(errq, sidx)
            /\ spc' = "next"
       ELSE /\ conns' = Append([conns EXCEPT ![sconn].sclosed = TRUE], NewConn)
            /\ sconn' = Len(conns) + 1
            /\ errq' = errq
            /\ spc' = "header"

\* worker_thread, `if sock is None`: socket.create_connection.
SConnect ==
    /\ spc = "connect"
    /\ UNCHANGED notWire
    /\ conns' = Append(conns, NewConn)
    /\ sconn' = Len(conns) + 1
    /\ spc' = "header"
    /\ UNCHANGED <<rleft, wcfg, sfiles, sidx, soffset, sretry, wretry, counters, errq,
                   spayload, rconn, rpc, rfi, rneed, rflds, rremaining, rfsys>>

\* send_file, up to the size field; then the `while offset < size` test.
SSendHeader ==
    /\ spc = "header"
    /\ UNCHANGED notWire
    /\ SockSend(RecordHeader(CurFile))
    /\ soffset' = 0
    /\ sretry' = 0
    /\ spayload' = 0
    /\ spc' = IF 0 < Len(CurFile.content) THEN "sendfile" ELSE "finalack"
    /\ UNCHANGED <<rleft, wcfg, sfiles, sidx, wretry, sconn, counters, errq,
                   rconn, rpc, rfi, rneed, rflds, rremaining, rfsys>>

\* send_file, one turn of the loop: sock.sendfile sends to_send bytes from
\* offset; the test `offset != size` that follows reads offset before it is
\* advanced, so inside the loop (offset < size) it always raises
\* ConnectionError, which the loop's own except clause catches: retry_count
\* goes up and the fallback is entered with offset unchanged.
SSendfile ==
    /\ spc = "sendfile"
    /\ UNCHANGED notWire
    /\ soffset < Len(CurFile.content)
    /\ LET size == Len(CurFile.content)
           to_send == Min(size - soffset, chunk_size)
       IN /\ SockSend(SubSeq(CurFile.content, soffset + 1, soffset + to_send))
          /\ spayload' = spayload + to_send
          /\ soffset # size
    /\ sretry' = sretry + 1
    /\ sretry + 1 <= max_retries
    /\ spc' = "fallback"
    /\ UNCHANGED <<rleft, wcfg, sfiles, sidx, soffset, wretry, sconn, counters, errq,
                   rconn, rpc, rfi, rneed, rflds, rremaining, rfsys>>

\* send_file, the except clause's fallback: f.seek(offset), then sendall of
\* everything from offset to the end of the file, then break.
SFallback ==
    /\ spc = "fallback"
    /\ UNCHANGED notWire
    /\ LET size == Len(CurFile.content)
       IN /\ SockSend(SubSeq(CurFile.content, soffset + 1, size))
          /\ spayload' = spayload + (size - soffset)
          /\ soffset' = size
    /\ spc' = "finalack"
    /\ UNCHANGED <<rleft, wcfg, sfiles, sidx, sretry, wretry, sconn, counters, errq,
                   rconn, rpc, rfi, rneed, rflds, rremaining, rfsys>>

\* send_file: `ack = sock.recv(1)` returns a byte (`if not ack` is false).
AckReadOrClosed(c) == c.acks > 0 \/ c.rclosed
AckRead(c) == c.acks > 0

\* send_file, after the loop: offset = size, so sock.recv(1) is reached; a
\* byte read is the ACK and the file is counted.
SRecvAck ==
    /\ spc = "finalack"
    /\ UNCHANGED notWire
    /\ soffset = Len(CurFile.content)
    /\ AckRead(conns[sconn])
    /\ conns' = [conns EXCEPT ![sconn].acks = @ - 1]
    /\ counters' = [files |-> counters.files + 1,
                    bytes |-> counters.bytes + Len(CurFile.content)]
    /\ spc' = "next"
    /\ UNCHANGED <<rleft, wcfg, sfiles, sidx, soffset, sretry, wretry, sconn, errq,
                   spayload, rconn, rpc, rfi, rneed, rflds, rremaining, rfsys>>

\* send_file, sock.recv(1) returns b"" (the receiver closed, no ACK left to
\* read): ConnectionError, which worker_thread catches.
SAckClosed ==
    /\ spc = "finalack"
    /\ UNCHANGED notWire
    /\ conns[sconn].acks = 0
    /\ conns[sconn].rclosed
    /\ WorkerExcept
    /\ UNCHANGED <<rleft, wcfg, sfiles, sidx, soffset, sretry, counters, spayload,
                   rconn, rpc, rfi, rneed, rflds, rremaining, rfsys>>

\* A write on a connection the receiver has closed fails (EPIPE or
\* ECONNRESET): in the header and in the fallback the error leaves send_file.
SSendError ==
    /\ spc \in {"header", "fallback"}
    /\ UNCHANGED notWire
    /\ conns[sconn].rclosed
    /\ WorkerExcept
    /\ UNCHANGED <<rleft, wcfg, sfiles, sidx, soffset, sretry, counters, spayload,
                   rconn, rpc, rfi, rneed, rflds, rremaining, rfsys>>

\* worker_thread: q.task_done(), then q.get() of the next item, or of the
\* poison value, after which the socket is closed.
SNext ==
    /\ spc = "next"
    /\ UNCHANGED notWire
    /\ IF sidx < Len(sfiles)
       THEN /\ sidx' = sidx + 1
            /\ wretry' = 0
            /\ spc' = IF sconn = 0 THEN "connect" ELSE "header"
            /\ UNCHANGED <<conns, sconn>>
       ELSE /\ spc' = "done"
            /\ conns' = IF sconn = 0 THEN conns
                        ELSE [conns EXCEPT ![sconn].sclosed = TRUE]
            /\ sconn' = 0
            /\ UNCHANGED <<sidx, wretry>>
    /\ UNCHANGED <<rleft, wcfg, sfiles, soffset, sretry, counters, errq, spayload,
                   rconn, rpc, rfi, rneed, rflds, rremaining, rfsys>>

(***************************************************************************)
(* The wire group: handle_client.                                          *)
(***************************************************************************)
FieldCap(i) ==
    CASE i = 1 -> MAX_NAME
      [] i = 2 -> MAX_DEST
      [] i = 3 -> MAX_DRAGONFLY_KEY
      [] OTHER -> MAX_SIDE

\* Files of the receiver: a file is named by its path below out_dir and by
\* whether it is the ".part" sibling of that path.
FsKey(rel, isPart) == [rel |-> rel, part |-> isPart]
FsPut(fs, k, v) == [x \in (DOMAIN fs) \cup {k} |-> IF x = k THEN v ELSE fs[x]]
FsDel(fs, k) == [x \in (DOMAIN fs) \ {k} |-> fs[x]]

\* final_path below out_dir: os.path.join(out_dir, dest_path) if
\* use_dest_paths and dest_path, else os.path.join(out_dir, name).
FinalRel(name, dest_path) ==
    IF wcfg.use_dest_paths /\ dest_path # <<>> THEN dest_path ELSE name

\* open() refuses a path with an embedded NUL byte (ValueError).
OpenOk(rel) == \A i \in 1..Len(rel) : rel[i] # 0

\* os.replace(tmp_path, final_path) fails when final_path is out_dir itself
\* (an empty relative path: os.path.join(out_dir, "") is a directory).
ReplaceOk(rel) == rel # <<>>

RData == conns[rconn].data
RRel == FinalRel(rflds[1], rflds[2])

\* The connection ends: the `with conn` block is left, by break or by an
\* exception that the outer `except Exception: pass` swallows.
RCloseConn(cs) == [cs EXCEPT ![rconn].rclosed = TRUE, ![rconn].data = <<>>]

\* worker: srv.accept() returns the next connection; handle_client starts.
RAccept ==
    /\ rpc = "idle"
    /\ UNCHANGED notWire
    /\ rconn < Len(conns)
    /\ rconn' = rconn + 1
    /\ rpc' = IF wcfg.expect_count_first THEN "count" ELSE "len"
    /\ rfi' = 1
    /\ rflds' = <<>>
    /\ UNCHANGED <<rleft, wcfg, sfiles, sidx, spc, soffset, sretry, wretry, sconn,
                   counters, errq, spayload, conns, rneed, rremaining, rfsys>>

\* expect_count_first: remaining_files = read_u64(conn).
RReadCount ==
    /\ rpc = "count"
    /\ UNCHANGED notWire
    /\ Len(RData) >= 8
    /\ rleft' = UnpackU64(Take(RData, 8))
    /\ conns' = [conns EXCEPT ![rconn].data = Drop(@, 8)]
    /\ rpc' = "len"
    /\ UNCHANGED <<wcfg, sfiles, sidx, spc, soffset, sretry, wretry, sconn,
                   counters, errq, spayload, rconn, rfi, rneed, rflds,
                   rremaining, rfsys>>

\* read_u64 of a length prefix, then the cap test. A zero length gives an
\* empty field without a further read.
RReadLen ==
    /\ rpc = "len"
    /\ UNCHANGED notWire
    /\ Len(RData) >= 8
    /\ LET n == UnpackU64(Take(RData, 8))
       IN IF n > FieldCap(rfi)
          THEN /\ conns' = RCloseConn(conns)
               /\ rpc' = "idle"
               /\ UNCHANGED <<rfi, rneed, rflds>>
          ELSE /\ conns' = [conns EXCEPT ![rconn].data = Drop(@, 8)]
               /\ rneed' = n
               /\ rpc' = "data"
               /\ UNCHANGED <<rfi, rflds>>
    /\ UNCHANGED <<rleft, wcfg, sfiles, sidx, spc, soffset, sretry, wretry, sconn,
                   counters, errq, spayload, rconn, rremaining, rfsys>>

\* recvall of the field's bytes; after side, the logger.info of line 95,
\* where `logger` is a local that only `if verbose:` assigns: without
\* verbose it raises UnboundLocalError and the connection ends.
RReadData ==
    /\ rpc = "data"
    /\ UNCHANGED notWire
    /\ Len(RData) >= rneed
    /\ rflds' = Append(rflds, Take(RData, rneed))
    /\ IF rfi < 4
       THEN /\ rfi' = rfi + 1
            /\ rpc' = "len"
            /\ conns' = [conns EXCEPT ![rconn].data = Drop(@, rneed)]
       ELSE /\ rfi' = rfi
            /\ IF wcfg.verbose
               THEN /\ rpc' = "size"
                    /\ conns' = [conns EXCEPT ![rconn].data = Drop(@, rneed)]
               ELSE /\ rpc' = "idle"
                    /\ conns' = RCloseConn(conns)
    /\ UNCHANGED <<rleft, wcfg, sfiles, sidx, spc, soffset, sretry, wretry, sconn,
                   counters, errq, spayload, rconn, rneed, rremaining, rfsys>>

\* read_u64 of size; final_path and tmp_path; open(tmp_path, "wb").
RReadSize ==
    /\ rpc = "size"
    /\ UNCHANGED notWire
    /\ Len(RData) >= 8
    /\ IF OpenOk(RRel)
       THEN /\ rremaining' = UnpackU64(Take(RData, 8))
            /\ conns' = [conns EXCEPT ![rconn].data = Drop(@, 8)]
            /\ rfsys' = FsPut(rfsys, FsKey(RRel, TRUE), <<>>)
            /\ rpc' = "payload"
       ELSE /\ conns' = RCloseConn(conns)
            /\ rpc' = "idle"
            /\ UNCHANGED <<rremaining, rfsys>>
    /\ UNCHANGED <<rleft, wcfg, sfiles, sidx, spc, soffset, sretry, wretry, sconn,
                   counters, errq, spayload, rconn, rfi, rneed, rflds>>

\* One turn of `while remaining`: conn.recv(min(CHUNK, remaining)), f.write.
RRecvChunk ==
    /\ rpc = "payload"
    /\ UNCHANGED notWire
    /\ rremaining > 0
    /\ Len(RData) > 0
    /\ LET k == Min(Min(CHUNK, rremaining), Len(RData))
       IN /\ rfsys' = [rfsys EXCEPT ![FsKey(RRel, TRUE)] = @ \o Take(RData, k)]
          /\ conns' = [conns EXCEPT ![rconn].data = Drop(@, k)]
          /\ rremaining' = rremaining - k
    /\ UNCHANGED <<rleft, wcfg, sfiles, sidx, spc, soffset, sretry, wretry, sconn,
                   counters, errq, spayload, rconn, rpc, rfi, rneed, rflds>>

\* remaining = 0: flush, fsync, os.replace(tmp_path, final_path), then
\* conn.sendall(b"\x00"); if the replace fails the .part file is removed and
\* the connection ends. With expect_count_first, remaining_files goes down
\* by one after the ACK and the loop is left when it is 0.
RFinish ==
    /\ rpc = "payload"
    /\ UNCHANGED notWire
    /\ rremaining = 0
    /\ IF ReplaceOk(RRel)
       THEN /\ rfsys' = FsPut(FsDel(rfsys, FsKey(RRel, TRUE)),
                              FsKey(RRel, FALSE), rfsys[FsKey(RRel, TRUE)])
            /\ rfi' = 1
            /\ rflds' = <<>>
            /\ LET withAck == [conns EXCEPT ![rconn].acks =
                                IF conns[rconn].sclosed THEN @ ELSE @ + 1]
               IN IF wcfg.expect_count_first
                  THEN /\ rleft' = rleft - 1
                       /\ IF rleft - 1 = 0
                          THEN /\ conns' = RCloseConn(withAck)
                               /\ rpc' = "idle"
                          ELSE /\ conns' = withAck
                               /\ rpc' = "len"
                  ELSE /\ rleft' = rleft
                       /\ conns' = withAck
                       /\ rpc' = "len"
       ELSE /\ rfsys' = FsDel(rfsys, FsKey(RRel, TRUE))
            /\ conns' = RCloseConn(conns)
            /\ rpc' = "idle"
            /\ UNCHANGED <<rfi, rflds, rleft>>
    /\ UNCHANGED <<wcfg, sfiles, sidx, spc, soffset, sretry, wretry, sconn,
                   counters, errq, spayload, rconn, rneed, rremaining>>

\* recv returns b"" (the sender closed and nothing is left to read):
\* ConnectionError. In the name_len read it is the loop's break, elsewhere it
\* reaches the outer except; in the payload loop the .part file is removed
\* first.
RPeerClosed ==
    /\ rpc \in {"count", "len", "data", "size", "payload"}
    /\ UNCHANGED notWire
    /\ conns[rconn].sclosed
    /\ CASE rpc \in {"count", "len", "size"} -> Len(RData) < 8
         [] rpc = "data" -> Len(RData) < rneed
         [] OTHER -> rremaining > 0 /\ Len(RData) = 0
    /\ rfsys' = IF rpc = "payload" THEN FsDel(rfsys, FsKey(RRel, TRUE)) ELSE rfsys
    /\ conns' = RCloseConn(conns)
    /\ rpc' = "idle"
    /\ UNCHANGED <<rleft, wcfg, sfiles, sidx, spc, soffset, sretry, wretry, sconn,
                   counters, errq, spayload, rconn, rfi, rneed, rflds, rremaining>>

\* The parts of the program that a specification does not run have not been
\* started: their variables keep the values given here.
Idle(running) ==
    /\ "wire" \notin running =>
          /\ wcfg = [verbose |-> TRUE, use_dest_paths |-> TRUE, expect_count_first |-> FALSE,
                     key |-> <<>>, side |-> <<>>, dest_path |-> <<>>]
          /\ sfiles = <<>>
          /\ sidx = 1
          /\ spc = "done"
          /\ soffset = 0
          /\ sretry = 0
          /\ wretry = 0
          /\ sconn = 0
          /\ counters = [files |-> 0, bytes |-> 0]
          /\ errq = <<>>
          /\ spayload = 0
          /\ conns = <<>>
          /\ rconn = 0
          /\ rpc = "idle"
          /\ rfi = 1
          /\ rneed = 0
          /\ rflds = <<>>
          /\ rremaining = 0
          /\ rleft = 0
          /\ rfsys = <<>>
    /\ "tail" \notin running =>
          /\ tcfg = [start_after |-> <<>>, max_files |-> 0, once |-> TRUE, lookahead |-> 0]
          /\ srcdir = {}
          /\ created = 0
          /\ tpc = "done"
          /\ names = <<>>
          /\ ni = 1
          /\ last_name = <<>>
          /\ enqueued_files = 0
          /\ putlog = <<>>
          /\ wst = "none"
    /\ "fleet" \notin running =>
          /\ fcfg = [emit_threshold |-> 1, receipts |-> 0]
          /\ pst = [p \in (1..NProcs) |-> "off"]
          /\ is_leader = [p \in (1..NProcs) |-> FALSE]
          /\ gdir = FALSE
          /\ statelock = FALSE
          /\ leaderlock = FALSE
          /\ statefile = <<>>
          /\ wpc = [p \in (1..NProcs) |-> "idle"]
          /\ wball = [p \in (1..NProcs) |-> "A"]
          /\ wattempts = [p \in (1..NProcs) |-> 0]
          /\ wg = [p \in (1..NProcs) |-> <<>>]
          /\ apc = [p \in (1..NProcs) |-> "off"]
          /\ to_publish = [p \in (1..NProcs) |-> <<>>]
          /\ published = <<>>
          /\ acked = [b \in {"A", "B"} |-> 0]
          /\ holders = {}
          /\ crossed = <<>>
          /\ netio = [p \in (1..NProcs) |-> [ack |-> 0, kv |-> 0, pub |-> 0]]
    /\ "clean" \notin running =>
          /\ ccfg = [out_dir |-> <<"">>, verbose |-> FALSE, max_count |-> 0, ttl |-> 0,
                     stale |-> FALSE, dests |-> "none", conns |-> 0, recs |-> 0, ticks |-> 0]
          /\ clock = 0
          /\ cfs = [made |-> {}, gone |-> {}]
          /\ sent = [k \in {} |-> [count |-> 0, ts |-> 0]]
          /\ slocks = {}
          /\ cpc = [c \in (1..NWorkers) |-> "idle"]
          /\ cdest = [c \in (1..NWorkers) |-> <<>>]
          /\ cfirst = [c \in (1..NWorkers) |-> <<>>]
          /\ cstart = [c \in (1..NWorkers) |-> 0]
          /\ chave = [c \in (1..NWorkers) |-> FALSE]
          /\ cstate = [c \in (1..NWorkers) |-> [count |-> 0, ts |-> 0]]
          /\ cnow = [c \in (1..NWorkers) |-> 0]
          /\ cshould = [c \in (1..NWorkers) |-> FALSE]
          /\ clatch = [c \in (1..NWorkers) |-> FALSE]
          /\ crecs = [c \in (1..NWorkers) |-> 0]
          /\ cacks = [c \in (1..NWorkers) |-> 0]
          /\ nconn = 0
          /\ deleted = <<>>
    /\ "store" \notin running =>
          /\ pcfg = "none"
          /\ inodes = <<>>
          /\ plink = [part |-> 0, final |-> 0]
          /\ ppc = [w \in (1..NWorkers) |-> "off"]
          /\ prec = [w \in (1..NWorkers) |-> 0]
          /\ pneed = [w \in (1..NWorkers) |-> 0]
          /\ pfd = [w \in (1..NWorkers) |-> 0]
          /\ poff = [w \in (1..NWorkers) |-> 0]
          /\ pold = [w \in (1..NWorkers) |-> 0]
          /\ nrec = 0
          /\ pdone = {}
          /\ pfails = {}
    /\ "bridge" \notin running =>
          /\ bcfg = [forward_pub |-> FALSE]
          /\ bcount = 0
          /\ blast = [kind |-> "none"]
          /\ spawned = <<>>
          /\ forwarded = <<>>
    /\ "pool" \notin running =>
          /\ kcfg = [conns |-> 0, workers |-> 0, files |-> 0]
          /\ q = <<>>
          /\ unfinished = 0
          /\ mpc = "done"
          /\ menq = 0
          /\ thpc = [t \in 1..Conns |-> "off"]
          /\ titem = [t \in 1..Conns |-> 0]
          /\ tretry = [t \in 1..Conns |-> 0]
          /\ tsock = [t \in 1..Conns |-> 0]
          /\ rserve = {}
          /\ tdone = [i \in 1..PoolFiles |-> 0]
          /\ poisons = [t \in 1..Conns |-> 0]
          /\ sentok = {}
          /\ error_q = {}
          /\ kfiles = 0
          /\ tload = [t \in 1..Conns |-> 0]
          /\ kexit = -1
    /\ "resend" \notin running =>
          /\ ucfg = [files |-> 0, use_dest_paths |-> FALSE]
          /\ upc = "exit"
          /\ uidx = 0
          /\ uretry = 0
          /\ usock = 0
          /\ uwire = 0
          /\ uack = 0
          /\ ustored = 0
          /\ upaths = {}
          /\ ucounters = 0
          /\ uerrq = {}
    /\ "replay" \notin running =>
          /\ vrun = 0
          /\ vinput = <<>>
          /\ vfirst = [files |-> <<>>, acks |-> <<>>]
    /\ "derive" \notin running =>
          /\ zop = "none"
          /\ zin = <<>>
          /\ zout = <<>>
    /\ "launch" \notin running =>
          /\ lcams = {}
          /\ lpc = [c \in 1..Senders |-> "end"]
          /\ lproc = [c \in 1..Senders |-> "none"]
          /\ proc_map = {}
          /\ lresults = [c \in 1..Senders |-> "none"]
          /\ lmain = "returned"
          /\ lexp = {}
          /\ lret = 0

(***************************************************************************)
(* SpecWire: a sender session of NFiles files "a", "b", ... of any sizes   *)
(* up to MaxSize, sent by one worker thread to one receiver worker.        *)
(***************************************************************************)
FillBytes == {0, 1}
FileNames == [i \in 1..NFiles |-> <<96 + i>>]
FileSizes == {0, 1, MaxSize}
Contents == {[i \in 1..n |-> b] : n \in FileSizes, b \in FillBytes}
MetaValues == {<<>>, <<75>>}

\* Both programs have started with the arguments wcfg; the sender's queue
\* will hold the files sfiles; nothing is connected yet.
WireStarted(cfgs, sessions) ==
    /\ wcfg \in cfgs
    /\ sfiles \in sessions
    /\ sidx = 1
    /\ spc = "connect"
    /\ soffset = 0
    /\ sretry = 0
    /\ wretry = 0
    /\ sconn = 0
    /\ counters = [files |-> 0, bytes |-> 0]
    /\ errq = <<>>
    /\ spayload = 0
    /\ conns = <<>>
    /\ rconn = 0
    /\ rpc = "idle"
    /\ rfi = 1
    /\ rneed = 0
    /\ rflds = <<>>
    /\ rremaining = 0
    /\ rleft = 0
    /\ rfsys = <<>>

WireNext ==
    \/ SConnect \/ SSendHeader \/ SSendfile \/ SFallback \/ SRecvAck
    \/ SAckClosed \/ SSendError \/ SNext
    \/ RAccept \/ RReadLen \/ RReadData \/ RReadSize \/ RRecvChunk \/ RFinish
    \/ RPeerClosed

InitWire ==
    /\ Idle({"wire"})
    /\ WireStarted([verbose : BOOLEAN, use_dest_paths : BOOLEAN,
                    expect_count_first : {FALSE},
                    key : MetaValues, side : MetaValues, dest_path : {<<>>}],
                   {[i \in 1..NFiles |-> [name |-> FileNames[i], content |-> c[i]]] :
                        c \in [1..NFiles -> Contents]})

SpecWire == InitWire /\ [][WireNext]_vars

(***************************************************************************)
(* Claims on the wire (SpecWire).                                          *)
(***************************************************************************)
\* The receiver holds file i of the session: final_path exists and has the
\* bytes of the source file.
StoredOk(i) ==
    LET f == sfiles[i]
        k == FsKey(FinalRel(f.name, generate_dest_path(f.name)), FALSE)
    IN k \in DOMAIN rfsys /\ rfsys[k] = f.content

\* C1: whenever the sender counts a file as sent (it has read the ACK byte
\* for that record), the receiver's final_path for that record exists and
\* holds exactly the bytes of the source file; for every file of a session
\* on a persistent connection.
C1_CountedImpliesStored ==
    [][counters'.files > counters.files => StoredOk(sidx)']_vars

\* C2: for every record the sender writes, the number of payload bytes it
\* has written after the size field when it waits for the ACK is exactly
\* size.
C2_PayloadIsSize ==
    spc = "finalack" => spayload = Len(CurFile.content)

\* The four fields of the record of the file the worker thread is on, as
\* send_file encodes them.
CurFields ==
    <<CurFile.name, generate_dest_path(CurFile.name), wcfg.key, wcfg.side>>

\* C16: for every record within the length caps, empty dest_path, key and
\* side included, the fields the receiver decodes (name, dest_path, key,
\* side, size) equal the fields the sender encoded: when the receiver has
\* decoded the size of a record on the connection the worker thread is on,
\* its five fields are those of the record the worker thread has written
\* and waits on.
C16_DecodedIsEncoded ==
    [][(rpc = "size" /\ rpc' = "payload" /\ sconn = rconn) =>
          /\ rflds = CurFields
          /\ rremaining' = Len(CurFile.content)]_vars

\* The worker thread is writing, or has written, the record of file sidx.
Sending == spc \in {"connect", "header", "sendfile", "fallback", "finalack"}

\* C17: on one connection the sender writes no byte of the record of file
\* i+1 before it has read the ACK byte for file i: while it is on file sidx
\* every earlier file has been counted or reported failed, it goes on to the
\* next file on the same connection only after having counted this one, and
\* it counts a file only on reading an ACK byte; a connection the receiver
\* closed before the ACK makes the attempt fail, it does not count the file.
C17_AckBeforeNext ==
    /\ [](Sending => counters.files + Len(errq) = sidx - 1)
    /\ [][sidx' # sidx =>
             /\ sidx' = sidx + 1
             /\ counters.files + Len(errq) = sidx
             /\ sconn' # 0 => (errq = <<>> \/ errq[Len(errq)] # sidx)]_vars
    /\ [][counters' # counters =>
             /\ spc = "finalack"
             /\ conns[sconn].acks > 0
             /\ conns'[sconn].acks = conns[sconn].acks - 1
             /\ counters'.files = counters.files + 1]_vars
    /\ [][(spc = "finalack" /\ spc' # spc /\ conns[sconn].acks = 0) =>
             /\ conns[sconn].rclosed
             /\ counters' = counters
             /\ wretry' = wretry + 1]_vars

\* The second file is on its way on the connection on which the first one
\* was sent and ACKed.
C17_Witness ==
    /\ sidx = 2
    /\ counters.files = 1
    /\ sconn = 1
    /\ spc = "finalack"

C20_CountHeaderFirst ==
    [][(spc = "header" /\ spc' # "header" /\ conns[sconn] = NewConn) =>
          Take(conns'[sconn].data, 8) = PackU64(Len(sfiles))]_vars

(***************************************************************************)
(* SpecCaps: sessions of one file whose record has fields at the caps of   *)
(* the receiver and one byte over: the name, the destination path (through *)
(* --dest-path), --dragonfly-key and --side.                               *)
(***************************************************************************)
\* n bytes "a"
CapFill(n) == [i \in 1..n |-> 97]

InitCaps ==
    /\ Idle({"wire"})
    /\ WireStarted([verbose : BOOLEAN, use_dest_paths : {TRUE},
                    expect_count_first : {FALSE},
                    key : {CapFill(0), CapFill(MAX_DRAGONFLY_KEY),
                           CapFill(MAX_DRAGONFLY_KEY + 1)},
                    side : {CapFill(0), CapFill(MAX_SIDE), CapFill(MAX_SIDE + 1)},
                    dest_path : {CapFill(0), CapFill(MAX_DEST - 2), CapFill(MAX_DEST - 1)}],
                   {<<[name |-> CapFill(n), content |-> CapFill(k)]>> :
                        n \in {1, MAX_NAME, MAX_NAME + 1}, k \in {0, 1}})

SpecCaps == InitCaps /\ [][WireNext]_vars

\* C12: a record whose four lengths are within MAX_NAME, MAX_DEST,
\* MAX_DRAGONFLY_KEY and MAX_SIDE (a name of exactly 4096 bytes included) is
\* accepted: the receiver keeps the connection and goes on to read the size;
\* a length over its cap makes the receiver leave handle_client at once (so
\* neither the cleanup nor the counter update, which come later in the loop,
\* is run) with the connection closed, no file and no .part file created and
\* no ACK sent.
C12_CapsEnforced ==
    [][/\ (rpc = "len" /\ rpc' # "len" /\ Len(RData) >= 8) =>
            IF UnpackU64(Take(RData, 8)) > FieldCap(rfi)
            THEN /\ rpc' = "idle"
                 /\ conns'[rconn].rclosed
                 /\ conns'[rconn].acks = conns[rconn].acks
                 /\ rfsys' = rfsys
                 /\ \A k \in DOMAIN rfsys' : ~k.part
            ELSE rpc' = "data" /\ ~conns'[rconn].rclosed
       /\ (rpc = "data" /\ rfi = 4 /\ rpc' # "data" /\ Len(RData) >= rneed) =>
            rpc' = "size" /\ ~conns'[rconn].rclosed
      ]_vars

(***************************************************************************)
(* SpecCount: a receiver with --expect-count-first and a peer that has     *)
(* written a count header n and then k file records "a", "b", ... (of 1,   *)
(* 0, 1, ... bytes) on one connection and either waits or has closed it.   *)
(***************************************************************************)
\* File record i as the receiver parses it: the four fields, the size, the
\* payload.
CountedFile(i) == [name |-> <<96 + i>>, content |-> [j \in 1..(i % 2) |-> i]]

RECURSIVE CountedRecords(_)
CountedRecords(k) ==
    IF k = 0 THEN <<>>
    ELSE CountedRecords(k - 1)
         \o RecordHeader(CountedFile(k)) \o CountedFile(k).content

InitCount ==
    /\ Idle({"wire"})
    /\ wcfg \in [verbose : BOOLEAN, use_dest_paths : {TRUE}, expect_count_first : {TRUE},
                 key : {<<>>}, side : {<<>>}, dest_path : {<<>>}]
    /\ sfiles = <<>>
    /\ sidx = 1
    /\ spc = "done"
    /\ soffset = 0
    /\ sretry = 0
    /\ wretry = 0
    /\ sconn = 0
    /\ counters = [files |-> 0, bytes |-> 0]
    /\ errq = <<>>
    /\ spayload = 0
    /\ \E n \in 0..MaxAnnounced, k \in 0..(MaxAnnounced + 1), closed \in BOOLEAN :
          conns = <<[data |-> PackU64(n) \o CountedRecords(k), acks |-> 0,
                     sclosed |-> closed, rclosed |-> FALSE]>>
    /\ rconn = 0
    /\ rpc = "idle"
    /\ rfi = 1
    /\ rneed = 0
    /\ rflds = <<>>
    /\ rremaining = 0
    /\ rleft = 0
    /\ rfsys = <<>>

CountNext ==
    \/ RAccept \/ RReadCount \/ RReadLen \/ RReadData \/ RReadSize
    \/ RRecvChunk \/ RFinish \/ RPeerClosed

SpecCount == InitCount /\ [][CountNext]_vars

\* C19: with expect_count_first, for every announced count n, the receiver
\* closes the connection as soon as exactly n file records have been
\* received and never processes more than n: remaining_files is n less the
\* records received, so whenever the receiver waits for or reads a record,
\* remaining_files is above 0.
C19_ClosesAtCount ==
    (wcfg.expect_count_first /\ rpc \in {"len", "data", "size", "payload"}) =>
        rleft > 0

(***************************************************************************)
(* The tail group: main of the sender, backlog phase and tail phase.       *)
(* A file name is "f_" + digits + ".jpg" and is modelled by its digits: as *)
(* "." sorts before every digit, Python's order on such names is the       *)
(* lexicographic order on their digit strings. "" is the empty sequence.   *)
(* "f_x.jpg", a name without a number, is the one-character LetterX.       *)
(***************************************************************************)
DigitSet == {0, 1}

\* A character that is not a digit and sorts after the digits, as a letter does.
LetterX == Cardinality(DigitSet)

RECURSIVE DigitStrings(_)
DigitStrings(n) ==
    IF n = 0 THEN {<<>>}
    ELSE {<<d>> \o t : d \in DigitSet, t \in DigitStrings(n - 1)}

TNames == UNION {DigitStrings(n) : n \in 1..MaxWidth} \cup {<<LetterX>>}

\* Python's str order: a < b.
RECURSIVE StrLess(_, _)
StrLess(a, b) ==
    IF b = <<>> THEN FALSE
    ELSE IF a = <<>> THEN TRUE
    ELSE IF Head(a) # Head(b) THEN Head(a) < Head(b)
    ELSE StrLess(Tail(a), Tail(b))

\* The test `name > last_name` of both phases.
NameAfterOrEqual(name, last) == ~StrLess(name, last)
NameAfter(name, last) == StrLess(last, name)

\* names.sort() of discover_once.
RECURSIVE SortNames(_)
SortNames(S) ==
    IF S = {} THEN <<>>
    ELSE LET m == CHOOSE x \in S : \A y \in S : y = x \/ StrLess(x, y)
         IN <<m>> \o SortNames(S \ {m})

discover_once == SortNames(srcdir)

\* int(digits)
RECURSIVE DigitsValue(_)
DigitsValue(d) ==
    IF d = <<>> THEN 0 ELSE DigitsValue(SubSeq(d, 1, Len(d) - 1)) * 10 + d[Len(d)]

RECURSIVE NumDigits(_)
NumDigits(n) == IF n < 10 THEN <<n>> ELSE NumDigits(n \div 10) \o <<n % 10>>

\* make_name: f"{prefix}{num:0{width}d}{ext}", the digits of it.
make_name(num, width) ==
    LET d == NumDigits(num)
    IN IF Len(d) >= width THEN d ELSE Zeros(width - Len(d)) \o d

\* lookahead_exists(src_dir, name, k): split_frame_number gives the digit
\* run of the name, or None (then False); the file numbered k higher exists.
lookahead_existsSelf(name, k) ==
    /\ \A i \in 1..Len(name) : name[i] \in DigitSet
    /\ make_name(DigitsValue(name), Len(name)) \in srcdir
lookahead_exists(name, k) ==
    /\ \A i \in 1..Len(name) : name[i] \in DigitSet
    /\ make_name(DigitsValue(name) + k, Len(name)) \in srcdir

\* The test before the for loop's body and the while condition of the tail
\* phase: args.max_files and enqueued_files >= args.max_files.
MaxReachedLate == tcfg.max_files # 0 /\ enqueued_files > tcfg.max_files
MaxReached == tcfg.max_files # 0 /\ enqueued_files >= tcfg.max_files

\* The producer writes a new frame file into src_dir.
Produce ==
    /\ created < MaxCreated
    /\ tpc # "done"
    /\ UNCHANGED notTail
    /\ \E n \in TNames \ srcdir : srcdir' = srcdir \cup {n}
    /\ created' = created + 1
    /\ UNCHANGED <<tcfg, tpc, names, ni, last_name, enqueued_files, putlog, wst>>

\* A frame file leaves src_dir (the ring buffer is overwritten).
Remove ==
    /\ tpc # "done"
    /\ UNCHANGED notTail
    /\ \E n \in srcdir : srcdir' = srcdir \ {n}
    /\ UNCHANGED <<tcfg, created, tpc, names, ni, last_name, enqueued_files, putlog,
                   wst>>

\* discover_once of the backlog phase (line 484) and of a tail scan (513).
Discover ==
    /\ tpc \in {"backlog", "tail"}
    /\ UNCHANGED notTail
    /\ tpc = "tail" => ~MaxReached
    /\ names' = discover_once
    /\ ni' = 1
    /\ tpc' = IF tpc = "backlog" THEN "backlog_for" ELSE "tail_for"
    /\ UNCHANGED <<tcfg, srcdir, created, last_name, enqueued_files, putlog, wst>>

\* The end of the for loop's body for names[ni], lines 498-501 and 535-539:
\* q.put, enqueued_files += 1 (in the tail phase under a second test of
\* max_files) and last_name = name when the file counts as complete, the
\* `continue` when it does not.
Body(complete) ==
    /\ IF complete
       THEN /\ IF tpc = "tail_for" /\ MaxReached
               THEN UNCHANGED <<putlog, enqueued_files>>
               ELSE /\ putlog' = Append(putlog, names[ni])
                    /\ enqueued_files' = enqueued_files + 1
            /\ last_name' = names[ni]
       ELSE UNCHANGED <<putlog, enqueued_files, last_name>>
    /\ ni' = ni + 1
    /\ wst' = "none"

\* One turn of the for loop over names, in either phase, up to the call of
\* wait_for_file_and_check_complete: a name that is not greater than
\* last_name is passed over, a name whose lookahead file exists is enqueued
\* at once, any other name enters the wait.
ForName ==
    /\ tpc \in {"backlog_for", "tail_for"}
    /\ wst = "none"
    /\ UNCHANGED notTail
    /\ ni <= Len(names)
    /\ ~MaxReached
    /\ IF ~NameAfter(names[ni], last_name)
       THEN Body(FALSE)
       ELSE IF tcfg.lookahead > 0 /\ lookahead_exists(names[ni], tcfg.lookahead)
            THEN Body(TRUE)
            ELSE /\ wst' = "exists"
                 /\ UNCHANGED <<ni, putlog, enqueued_files, last_name>>
    /\ UNCHANGED <<tcfg, srcdir, created, tpc, names>>

\* wait_for_file_and_check_complete, `while not os.path.exists(path)`: the
\* file is there and the loop ends, or max_wait_seconds have passed and the
\* function returns False, or the loop sleeps file_wait_ms.
WaitForFile ==
    /\ wst = "exists"
    /\ UNCHANGED notTail
    /\ IF names[ni] \in srcdir
       THEN /\ wst' = "getsize"
            /\ UNCHANGED <<ni, putlog, enqueued_files, last_name>>
       ELSE \E expired \in BOOLEAN :
               IF expired THEN Body(FALSE)
               ELSE UNCHANGED <<wst, ni, putlog, enqueued_files, last_name>>
    /\ UNCHANGED <<tcfg, srcdir, created, tpc, names>>

\* last = os.path.getsize(path); FileNotFoundError returns False.
WaitFirstSize ==
    /\ wst = "getsize"
    /\ UNCHANGED notTail
    /\ IF names[ni] \in srcdir
       THEN /\ wst' = "loop"
            /\ UNCHANGED <<ni, putlog, enqueued_files, last_name>>
       ELSE Body(FALSE)
    /\ UNCHANGED <<tcfg, srcdir, created, tpc, names>>

\* One turn of `while stable < passes` with passes = 1: when max_wait_seconds
\* have passed the function returns True; otherwise it sleeps stable_ms and
\* reads the size again: FileNotFoundError returns False, the same size
\* returns True, another size (the producer is still writing) starts the
\* next turn.
WaitStable ==
    /\ wst = "loop"
    /\ UNCHANGED notTail
    /\ \E expired \in BOOLEAN, same \in BOOLEAN :
          IF expired THEN Body(TRUE)
          ELSE IF names[ni] \notin srcdir THEN Body(FALSE)
          ELSE IF same THEN Body(TRUE)
          ELSE UNCHANGED <<wst, ni, putlog, enqueued_files, last_name>>
    /\ UNCHANGED <<tcfg, srcdir, created, tpc, names>>

\* The for loop ends (names exhausted, or the break on max_files). After the
\* backlog: q.join() if once or max_files reached, else the tail phase. After
\* a tail scan: sleep scan_ms and test the while condition again.
ForEnd ==
    /\ tpc \in {"backlog_for", "tail_for"}
    /\ wst = "none"
    /\ UNCHANGED notTail
    /\ ni > Len(names) \/ MaxReached
    /\ tpc' = IF tpc = "backlog_for" /\ (tcfg.once \/ MaxReached)
              THEN "done" ELSE "tail"
    /\ UNCHANGED <<tcfg, srcdir, created, names, ni, last_name, enqueued_files,
                   putlog, wst>>

\* The tail phase's while condition fails: q.join() and the workers stop.
TailEnd ==
    /\ tpc = "tail"
    /\ UNCHANGED notTail
    /\ MaxReached
    /\ tpc' = "done"
    /\ UNCHANGED <<tcfg, srcdir, created, names, ni, last_name, enqueued_files,
                   putlog, wst>>

(***************************************************************************)
(* SpecTail: one sender session over a directory that the producer fills   *)
(* and empties while the sender scans it.                                  *)
(***************************************************************************)
TailNext ==
    \/ Produce \/ Remove \/ Discover \/ ForName \/ WaitForFile \/ WaitFirstSize
    \/ WaitStable \/ ForEnd \/ TailEnd

InitTail ==
    /\ Idle({"tail"})
    /\ tcfg \in [start_after : {<<>>, <<0, 1>>}, max_files : {0, 1},
                 once : BOOLEAN, lookahead : {0, 1}]
    /\ srcdir = {}
    /\ created = 0
    /\ tpc = "backlog"
    /\ names = <<>>
    /\ ni = 1
    /\ last_name = tcfg.start_after
    /\ enqueued_files = 0
    /\ putlog = <<>>
    /\ wst = "none"

SpecTail == InitTail /\ [][TailNext]_vars

\* C3: the enqueued names are strictly increasing in lexicographic order:
\* every name is greater than start_after and greater than last_name when
\* it is enqueued, last_name never decreases, no name is enqueued twice.
C3_EnqueuedIncreasing ==
    /\ [](/\ \A i \in 1..Len(putlog) : StrLess(tcfg.start_after, putlog[i])
          /\ \A i \in 1..Len(putlog), j \in 1..Len(putlog) :
                i < j => StrLess(putlog[i], putlog[j]))
    /\ [][/\ ~StrLess(last_name', last_name)
          /\ putlog' # putlog => StrLess(last_name, putlog'[Len(putlog')])]_vars

\* A second scan enqueues a name although a name was enqueued before.
C3_Witness ==
    /\ Len(putlog) >= 2
    /\ tpc = "tail_for"
    /\ \E n \in srcdir : StrLess(n, last_name)

(***************************************************************************)
(* The fleet group: receiver processes (each with one worker process and,  *)
(* if it is the leader, the aggregator thread) sharing                     *)
(* .global_recv_state/{state.json, state.lock, leader.lock}.               *)
(***************************************************************************)
Procs == 1..NProcs
Balls == {"A", "B"}

HasBall(g, b) == \E i \in 1..Len(g) : g[i].ball_id = b
BallIndex(g, b) == CHOOSE i \in 1..Len(g) : g[i].ball_id = b
StoredCount(g, b) == IF HasBall(g, b) THEN g[BallIndex(g, b)].count ELSE 0

\* gstate.get(ball_id, {"count": 0, ...}); b["count"] += 1; gstate[ball_id] = b
CountReceipt(g, b) ==
    IF HasBall(g, b)
    THEN [g EXCEPT ![BallIndex(g, b)].count = @ + 1]
    ELSE Append(g, [ball_id |-> b, count |-> 1, emitted |-> FALSE])

\* with_file_lock: os.open(lock_path, O_CREAT | O_EXCL | O_RDWR) succeeds.
with_file_lock == gdir /\ ~statelock

\* The aggregator's test `not emitted and count >= args.emit_threshold`.
ShouldEmitStrict(rec) == ~rec.emitted /\ rec.count > fcfg.emit_threshold
ShouldEmit(rec) == ~rec.emitted /\ rec.count >= fcfg.emit_threshold

\* The for loop of aggregator_loop over gstate.items(): the items appended
\* to to_publish, in the order of the records.
RECURSIVE ToPublish(_)
ToPublish(g) ==
    IF g = <<>> THEN <<>>
    ELSE (IF ShouldEmit(Head(g))
          THEN <<[ball_id |-> Head(g).ball_id, count |-> Head(g).count]>>
          ELSE <<>>) \o ToPublish(Tail(g))

\* ... and the records after state.update({"emitted": True, ...}).
MarkEmitted(g) ==
    [i \in 1..Len(g) |-> IF ShouldEmit(g[i]) THEN [g[i] EXCEPT !.emitted = TRUE]
                         ELSE g[i]]

\* The captures of g whose count has reached emit_threshold and that are not
\* yet in `seen`, in the order of the records: the captures a write of g to
\* state.json takes to the threshold.
RECURSIVE Crossing(_, _)
Crossing(g, seen) ==
    IF g = <<>> THEN <<>>
    ELSE (IF Head(g).count >= fcfg.emit_threshold
             /\ \A i \in 1..Len(seen) : seen[i] # Head(g).ball_id
          THEN <<Head(g).ball_id>> ELSE <<>>) \o Crossing(Tail(g), seen)

\* handle_client: a file has been renamed into place and ACKed
\* (conn.sendall(b'\x00'), line 208), its dest_path has at least three
\* components: the counter update begins.
WReceipt(p, b) ==
    /\ pst[p] = "running"
    /\ wpc[p] = "idle"
    /\ UNCHANGED <<notFleet, fcfg, crossed>>
    /\ acked["A"] + acked["B"] < fcfg.receipts
    /\ acked' = [acked EXCEPT ![b] = @ + 1]
    /\ netio' = [netio EXCEPT ![p].ack = @ + 1]
    /\ wball' = [wball EXCEPT ![p] = b]
    /\ wattempts' = [wattempts EXCEPT ![p] = 0]
    /\ wpc' = [wpc EXCEPT ![p] = "try"]
    /\ UNCHANGED <<pst, is_leader, gdir, statelock, leaderlock, statefile, wg,
                   apc, to_publish, published, holders>>

\* One turn of `for _ in range(5)` in which with_file_lock succeeds.
WLock(p) ==
    /\ wpc[p] = "try"
    /\ UNCHANGED <<notFleet, fcfg, crossed, netio>>
    /\ with_file_lock
    /\ statelock' = TRUE
    /\ holders' = holders \cup {<<"worker", p>>}
    /\ wpc' = [wpc EXCEPT ![p] = "read"]
    /\ UNCHANGED <<pst, is_leader, gdir, leaderlock, statefile, wball, wattempts,
                   wg, apc, to_publish, published, acked>>

\* One turn in which with_file_lock fails: time.sleep(0.002); after the
\* fifth such turn the loop ends and the receipt is not counted.
WLockBusy(p) ==
    /\ wpc[p] = "try"
    /\ UNCHANGED <<notFleet, fcfg, crossed, netio>>
    /\ ~with_file_lock
    /\ wattempts' = [wattempts EXCEPT ![p] = @ + 1]
    /\ wpc' = [wpc EXCEPT ![p] = IF wattempts[p] + 1 >= LockAttempts
                                 THEN "idle" ELSE "try"]
    /\ UNCHANGED <<pst, is_leader, gdir, statelock, leaderlock, statefile, wball,
                   wg, apc, to_publish, published, acked, holders>>

\* Under the lock: json.load of state.json ({} when it cannot be read) and
\* the update of the capture's record.
WRead(p) ==
    /\ wpc[p] = "read"
    /\ UNCHANGED <<notFleet, fcfg, crossed, netio>>
    /\ wg' = [wg EXCEPT ![p] = CountReceipt(statefile, wball[p])]
    /\ wpc' = [wpc EXCEPT ![p] = "write"]
    /\ UNCHANGED <<pst, is_leader, gdir, statelock, leaderlock, statefile, wball,
                   wattempts, apc, to_publish, published, acked, holders>>

\* json.dump to state.json.part and os.replace over state.json (an error
\* when the directory is gone), then `finally: release_file_lock`, which
\* removes state.lock whoever created it.
WWrite(p) ==
    /\ wpc[p] = "write"
    /\ UNCHANGED <<notFleet, fcfg, netio>>
    /\ statefile' = IF gdir THEN wg[p] ELSE statefile
    /\ crossed' = crossed \o Crossing(statefile', crossed)
    /\ statelock' = FALSE
    /\ holders' = holders \ {<<"worker", p>>}
    /\ wpc' = [wpc EXCEPT ![p] = "idle"]
    /\ UNCHANGED <<pst, is_leader, gdir, leaderlock, wball, wattempts, wg, apc,
                   to_publish, published, acked>>

\* aggregator_loop: a poll in which with_file_lock succeeds.
ALock(p) ==
    /\ apc[p] = "poll"
    /\ UNCHANGED <<notFleet, fcfg, crossed, netio>>
    /\ with_file_lock
    /\ statelock' = TRUE
    /\ holders' = holders \cup {<<"aggregator", p>>}
    /\ apc' = [apc EXCEPT ![p] = "scan"]
    /\ UNCHANGED <<pst, is_leader, gdir, leaderlock, statefile, wpc, wball,
                   wattempts, wg, to_publish, published, acked>>

\* Under the lock: json.load, the for loop over the records, and if a record
\* was updated the write of state.json. A failing write (the directory is
\* gone) ends the aggregator thread with the exception, after the finally.
AScan(p) ==
    /\ apc[p] = "scan"
    /\ UNCHANGED <<notFleet, fcfg, crossed>>
    /\ netio' = [netio EXCEPT ![p].kv = @ + Len(ToPublish(statefile))]
    /\ LET items == ToPublish(statefile)
       IN IF items = <<>> \/ gdir
          THEN /\ to_publish' = [to_publish EXCEPT ![p] = items]
               /\ statefile' = MarkEmitted(statefile)
               /\ apc' = [apc EXCEPT ![p] = "release"]
               /\ UNCHANGED <<statelock, holders>>
          ELSE /\ statelock' = FALSE
               /\ holders' = holders \ {<<"aggregator", p>>}
               /\ apc' = [apc EXCEPT ![p] = "dead"]
               /\ UNCHANGED <<to_publish, statefile>>
    /\ UNCHANGED <<pst, is_leader, gdir, leaderlock, wpc, wball, wattempts, wg,
                   published, acked>>

\* finally: release_file_lock(global_state_lock).
ARelease(p) ==
    /\ apc[p] = "release"
    /\ UNCHANGED <<notFleet, fcfg, crossed, netio>>
    /\ statelock' = FALSE
    /\ holders' = holders \ {<<"aggregator", p>>}
    /\ apc' = [apc EXCEPT ![p] = "publish"]
    /\ UNCHANGED <<pst, is_leader, gdir, leaderlock, statefile, wpc, wball,
                   wattempts, wg, to_publish, published, acked>>

\* for item in to_publish: pub.send; then time.sleep(0.1) and the next poll.
APublish(p) ==
    /\ apc[p] = "publish"
    /\ UNCHANGED <<notFleet, fcfg, crossed>>
    /\ published' = published \o [i \in 1..Len(to_publish[p]) |->
                       [proc |-> p, ball_id |-> to_publish[p][i].ball_id,
                        count |-> to_publish[p][i].count]]
    /\ netio' = [netio EXCEPT ![p].pub = @ + Len(to_publish[p])]
    /\ to_publish' = [to_publish EXCEPT ![p] = <<>>]
    /\ apc' = [apc EXCEPT ![p] = "poll"]
    /\ UNCHANGED <<pst, is_leader, gdir, statelock, leaderlock, statefile, wpc,
                   wball, wattempts, wg, acked, holders>>

\* A receiver process starts: the import of pyfast_recv_v2 runs line 12,
\* shutil.rmtree(".global_recv_state", onerror=FileNotFoundError), which
\* removes the directory of the current working directory with every file in
\* it. The launcher starts the script from its own directory, where main
\* keeps the global state (cwdIsBase); started elsewhere, another directory
\* is removed.
PImport(p) ==
    /\ pst[p] = "off"
    /\ UNCHANGED <<notFleet, fcfg, crossed, netio>>
    /\ \E cwdIsBase \in BOOLEAN :
          IF cwdIsBase
          THEN /\ gdir' = FALSE
               /\ statelock' = FALSE
               /\ leaderlock' = FALSE
               /\ statefile' = <<>>
          ELSE UNCHANGED <<gdir, statelock, leaderlock, statefile>>
    /\ pst' = [pst EXCEPT ![p] = "imported"]
    /\ UNCHANGED <<is_leader, wpc, wball, wattempts, wg, apc, to_publish,
                   published, acked, holders>>

\* main: os.makedirs(global_dir, exist_ok=True).
PMakeDirs(p) ==
    /\ pst[p] = "imported"
    /\ UNCHANGED <<notFleet, fcfg, crossed, netio>>
    /\ gdir' = TRUE
    /\ pst' = [pst EXCEPT ![p] = "ready"]
    /\ UNCHANGED <<is_leader, statelock, leaderlock, statefile, wpc, wball,
                   wattempts, wg, apc, to_publish, published, acked, holders>>

\* main: is_leader = acquire_leader() (exclusive create of leader.lock); the
\* leader starts the aggregator thread; the worker process is started.
PAcquireLeader(p) ==
    /\ pst[p] = "ready"
    /\ UNCHANGED <<notFleet, fcfg, crossed, netio>>
    /\ LET won == gdir /\ ~leaderlock
       IN /\ is_leader' = [is_leader EXCEPT ![p] = won]
          /\ leaderlock' = IF won THEN TRUE ELSE leaderlock
          /\ apc' = [apc EXCEPT ![p] = IF won THEN "poll" ELSE "off"]
    /\ pst' = [pst EXCEPT ![p] = "running"]
    /\ UNCHANGED <<gdir, statelock, statefile, wpc, wball, wattempts, wg,
                   to_publish, published, acked, holders>>

\* The first process has started and is the leader; `running` are the
\* processes that have started after it and found leader.lock taken.
FleetStarted(running, receipts, thresholds) ==
    /\ fcfg \in [emit_threshold : thresholds, receipts : {receipts}]
    /\ pst = [p \in Procs |-> IF p = 1 \/ p \in running THEN "running" ELSE "off"]
    /\ is_leader = [p \in Procs |-> p = 1]
    /\ gdir = TRUE
    /\ statelock = FALSE
    /\ leaderlock = TRUE
    /\ statefile = <<>>
    /\ wpc = [p \in Procs |-> "idle"]
    /\ wball = [p \in Procs |-> "A"]
    /\ wattempts = [p \in Procs |-> 0]
    /\ wg = [p \in Procs |-> <<>>]
    /\ apc = [p \in Procs |-> IF p = 1 THEN "poll" ELSE "off"]
    /\ to_publish = [p \in Procs |-> <<>>]
    /\ published = <<>>
    /\ acked = [b \in Balls |-> 0]
    /\ holders = {}
    /\ crossed = <<>>
    /\ netio = [p \in Procs |-> [ack |-> 0, kv |-> 0, pub |-> 0]]

(***************************************************************************)
(* SpecAgg: a started fleet: the workers of NProcs receiver processes      *)
(* update the counter while the leader's aggregator polls it.              *)
(* SpecFleet: the same, with the other receiver processes starting at any  *)
(* time.                                                                   *)
(***************************************************************************)
InitAgg == Idle({"fleet"}) /\ FleetStarted(Procs, MaxReceipts, {EmitThreshold})

InitFleet == Idle({"fleet"}) /\ FleetStarted({}, MaxFleetReceipts, 1..EmitThreshold)

AggNext ==
    \E p \in Procs :
        \/ \E b \in Balls : WReceipt(p, b)
        \/ WLock(p) \/ WLockBusy(p) \/ WRead(p) \/ WWrite(p)
        \/ ALock(p) \/ AScan(p) \/ ARelease(p) \/ APublish(p)

FleetNext ==
    \/ AggNext
    \/ \E p \in Procs : PImport(p) \/ PMakeDirs(p) \/ PAcquireLeader(p)

SpecAgg == InitAgg /\ [][AggNext]_vars

SpecFleet == InitFleet /\ [][FleetNext]_vars

PublishedBalls == {published[i].ball_id : i \in 1..Len(published)}
PendingBalls(p) == {to_publish[p][i].ball_id : i \in 1..Len(to_publish[p])}

\* C4: the aggregator publishes at most one completion event per capture,
\* over every interleaving of worker counter updates and aggregator polls,
\* also when files of the capture arrive after it was emitted.
C4_AtMostOneEvent ==
    \A i \in 1..Len(published), j \in 1..Len(published) :
        published[i].ball_id = published[j].ball_id => i = j

C6_NoLostUpdate ==
    (\A p \in Procs : wpc[p] = "idle") =>
        \A b \in Balls : StoredCount(statefile, b) = acked[b]

\* C7: at most one worker or aggregator is between a successful acquisition
\* of state.lock and its release, for receiver processes started at any time.
C7_MutualExclusion == Cardinality(holders) <= 1

(***************************************************************************)
(* SpecOrder: a started fleet that receives enough files for both captures *)
(* to reach the threshold.                                                 *)
(***************************************************************************)
InitOrder == Idle({"fleet"}) /\ FleetStarted(Procs, 2 * EmitThreshold, {EmitThreshold})

SpecOrder == InitOrder /\ [][AggNext]_vars

\* a comes before b in the sequence s.
Before(s, a, b) == \E m \in 1..Len(s), n \in 1..Len(s) : m < n /\ s[m] = a /\ s[n] = b

\* C21: completion events are published in the order in which the captures'
\* stored counts reached emit_threshold: if A's event is sent before B's,
\* A's count reached the threshold before B's did, whichever record was
\* created first in state.json and also when both reach it between two polls.
C21_EventsInCrossingOrder ==
    \A i \in 1..Len(published), j \in 1..Len(published) :
        (i < j /\ published[i].ball_id # published[j].ball_id) =>
            Before(crossed, published[i].ball_id, published[j].ball_id)

\* C22: no network I/O between acquiring and releasing state.lock: a worker
\* that holds the lock sends no ACK, and an aggregator that holds it makes no
\* write to the key-value store and no pub/sub send.
C22_NoNetworkUnderLock ==
    [][\A p \in Procs :
          /\ netio'[p].ack # netio[p].ack => <<"worker", p>> \notin holders
          /\ (netio'[p].kv # netio[p].kv \/ netio'[p].pub # netio[p].pub) =>
                <<"aggregator", p>> \notin holders]_vars

(***************************************************************************)
(* SpecEmit: SpecFleet with the scheduling the code relies on: a worker    *)
(* that has begun a counter update goes on with it (the for loop of line   *)
(* 220 sleeps 2 ms and retries), a live aggregator thread polls again      *)
(* after every time.sleep(0.1), and a process that has been started goes   *)
(* on through main. Files arrive, and processes are started, at any time   *)
(* or never.                                                               *)
(***************************************************************************)
FleetFairness ==
    \A p \in Procs :
        /\ WF_vars(WLock(p) \/ WLockBusy(p) \/ WRead(p) \/ WWrite(p))
        /\ WF_vars(ALock(p) \/ AScan(p) \/ ARelease(p) \/ APublish(p))
        /\ WF_vars(PMakeDirs(p) \/ PAcquireLeader(p))

SpecEmit == InitFleet /\ [][FleetNext]_vars /\ FleetFairness

\* The captures an aggregator has queued in to_publish and not yet sent.
Pending == UNION {PendingBalls(p) : p \in Procs}

\* C23: with a leader running, a capture whose record is persisted with
\* emitted = true has its completion event sent on the pub socket in that
\* same aggregator iteration (it is sent, or queued by an aggregator that is
\* about to send it), and every capture whose stored count reaches the
\* threshold is eventually emitted.
C23_EmittedIsPublished ==
    /\ [](\A k \in 1..Len(statefile) :
            statefile[k].emitted => statefile[k].ball_id \in PublishedBalls \cup Pending)
    /\ \A b \in Balls :
          (StoredCount(statefile, b) >= fcfg.emit_threshold) ~> (b \in PublishedBalls)

(***************************************************************************)
(* SpecLeader: the life of the receiver processes alone: each starts,      *)
(* elects, runs its aggregator if it is the leader, and shuts down, any    *)
(* number of times.                                                        *)
(***************************************************************************)
\* main, the finally clause after the workers have ended: stop_event.set(),
\* which ends the aggregator loop at its next `while not stop_event.is_set()`
\* test; then, in the leader, agg_thread.join and release_leader, which
\* removes leader.lock whoever created it.
PShutdown(p) ==
    /\ pst[p] = "running"
    /\ wpc[p] = "idle"
    /\ apc[p] \in {"off", "poll", "dead"}
    /\ UNCHANGED <<notFleet, fcfg, crossed, netio>>
    /\ leaderlock' = IF is_leader[p] THEN FALSE ELSE leaderlock
    /\ is_leader' = [is_leader EXCEPT ![p] = FALSE]
    /\ apc' = [apc EXCEPT ![p] = "off"]
    /\ pst' = [pst EXCEPT ![p] = "off"]
    /\ UNCHANGED <<gdir, statelock, statefile, wball, wpc, wattempts, wg,
                   to_publish, published, acked, holders>>

InitLeader == Idle({})

LeaderNext ==
    \E p \in Procs :
        \/ PImport(p) \/ PMakeDirs(p) \/ PAcquireLeader(p) \/ PShutdown(p)
        \/ ALock(p) \/ AScan(p) \/ ARelease(p) \/ APublish(p)

SpecLeader == InitLeader /\ [][LeaderNext]_vars

\* The processes whose aggregator thread is alive in aggregator_loop.
Aggregating == {p \in Procs : apc[p] \in {"poll", "scan", "release", "publish"}}

\* C11: among the receiver processes started against one global state
\* directory, over every sequence of starts and graceful shutdowns, at most
\* one process runs the aggregator loop at any moment, and a process that
\* did not create leader.lock never runs it.
C11_SingleAggregator ==
    /\ Cardinality(Aggregating) <= 1
    /\ \A p \in Aggregating : is_leader[p]

(***************************************************************************)
(* Paths. A path string is modelled by the list of its components, the     *)
(* result of str.split("/"): "" is <<"">>, "/dst/cam" is <<"", "dst",      *)
(* "cam">>, "a/b/" is <<"a", "b", "">>. A component holds no "/".          *)
(***************************************************************************)
Front(s) == SubSeq(s, 1, Len(s) - 1)
Last(s) == s[Len(s)]

\* path.startswith("/")
IsAbs(p) == Len(p) >= 2 /\ p[1] = ""

RECURSIVE NormComps(_, _, _)
\* The loop of posixpath.normpath over comps, new_comps in acc.
NormComps(comps, acc, rooted) ==
    IF comps = <<>> THEN acc
    ELSE LET c == Head(comps)
         IN IF c = "" \/ c = "."
            THEN NormComps(Tail(comps), acc, rooted)
            ELSE IF \/ c # ".."
                    \/ (~rooted /\ acc = <<>>)
                    \/ (acc # <<>> /\ Last(acc) = "..")
                 THEN NormComps(Tail(comps), Append(acc, c), rooted)
                 ELSE IF acc # <<>>
                      THEN NormComps(Tail(comps), Front(acc), rooted)
                      ELSE NormComps(Tail(comps), acc, rooted)

\* os.path.normpath
normpath(p) ==
    IF p = <<"">> THEN <<".">>
    ELSE LET slashes == IF ~IsAbs(p) THEN 0
                        ELSE IF Len(p) >= 3 /\ p[2] = ""
                                /\ ~(Len(p) >= 4 /\ p[3] = "")
                             THEN 2 ELSE 1
             new == NormComps(p, <<>>, slashes > 0)
         IN IF slashes = 0 THEN (IF new = <<>> THEN <<".">> ELSE new)
            ELSE IF new = <<>> THEN [i \in 1..(slashes + 1) |-> ""]
                 ELSE [i \in 1..slashes |-> ""] \o new

\* os.path.basename
basename(p) == Last(p)

RECURSIVE RStripSlashes(_)
RStripSlashes(p) ==
    IF Len(p) > 1 /\ Last(p) = "" THEN RStripSlashes(Front(p)) ELSE p

\* os.path.dirname
dirname(p) ==
    IF Len(p) = 1 THEN <<"">>
    ELSE IF \A i \in 1..(Len(p) - 1) : p[i] = ""
         THEN Front(p) \o <<"">>
         ELSE RStripSlashes(Front(p))

\* os.path.join(a, b)
join(a, b) ==
    IF IsAbs(b) THEN b
    ELSE IF Last(a) = "" THEN Front(a) \o b
         ELSE a \o b

\* t.startswith(g + os.sep)
StartsWithDir(t, g) ==
    /\ Len(t) > Len(g)
    /\ \A i \in 1..Len(g) : t[i] = g[i]

(***************************************************************************)
(* The per-capture cleanup of handle_client, lines 98-179, run by NWorkers *)
(* receiver workers that share out_dir. The receiver runs with             *)
(* --use-dest-paths.                                                       *)
(***************************************************************************)
CWorkers == 1..NWorkers

\* parts, line 100
RECURSIVE KeepNames(_)
KeepNames(comps) ==
    IF comps = <<>> THEN <<>>
    ELSE LET c == Head(comps)
         IN IF c # "" /\ c # ".." /\ c # "."
            THEN <<c>> \o KeepNames(Tail(comps))
            ELSE KeepNames(Tail(comps))

Parts(dest_path) == KeepNames(normpath(dest_path))

camera_name(out_dir) == basename(normpath(out_dir))

\* parts.index(camera_name), -1 when it raises ValueError
cam_idx(parts, cam) ==
    IF \E i \in 1..Len(parts) : parts[i] = cam
    THEN (CHOOSE i \in 1..Len(parts) :
              parts[i] = cam /\ \A j \in 1..(i - 1) : parts[j] # cam) - 1
    ELSE -1

ball_id(out_dir, dest_path) ==
    LET parts == Parts(dest_path)
        idx == cam_idx(parts, camera_name(out_dir))
    IN IF idx > 0 THEN parts[idx] ELSE parts[1]

dest_base(out_dir) == dirname(out_dir)

sentinel_dir(out_dir) ==
    join(join(dest_base(out_dir), <<".recv_sentinels">>), <<camera_name(out_dir)>>)

\* The file sentinel_done of a capture: the directory it is in and the
\* capture its name is made of. sentinel_lock is the same with ".lock".
sentinel_done(out_dir, ball) ==
    [dir |-> normpath(sentinel_dir(out_dir)), ball |-> ball]

targets(out_dir, ball) ==
    <<join(out_dir, <<ball>>),
      join(join(dest_base(out_dir), <<ball>>), <<camera_name(out_dir)>>)>>

base_guard(out_dir) == normpath(dest_base(out_dir))

GuardOff(target_norm, guard) == TRUE
\* not the `continue` of line 156
Guard(target_norm, guard) == StartsWithDir(target_norm, guard)

\* path a is path b or a directory above it
IsPrefix(a, b) == Len(a) <= Len(b) /\ SubSeq(b, 1, Len(a)) = a

\* os.path.exists
Exists(fs, path) ==
    \/ \E d \in fs.made : IsPrefix(path, d)
    \/ ccfg.stale /\ \A g \in fs.gone : ~IsPrefix(g, path)

\* os.makedirs(path, exist_ok=True)
Makedirs(fs, path) == [fs EXCEPT !.made = @ \cup {path}]

\* what shutil.rmtree(path) leaves of the directories
Rmtree(fs, path) ==
    [made |-> {d \in fs.made : ~IsPrefix(path, d)}, gone |-> fs.gone \cup {path}]

\* os.open(sentinel_lock, O_CREAT | O_EXCL | O_RDWR) succeeds
ExclCreateAlways(fs, locks, key) == TRUE
ExclCreate(fs, locks, key) == key \notin locks /\ Exists(fs, key.dir)

\* final_path, line 182, and the directory line 187 makes for it
final_path(out_dir, dest_path) ==
    IF dest_path # <<"">> THEN join(out_dir, dest_path) ELSE join(out_dir, <<"f">>)

FinalDir(out_dir, dest_path) ==
    LET dn == dirname(final_path(out_dir, dest_path))
    IN normpath(IF dn = <<"">> THEN out_dir ELSE dn)

\* The worker accepts a connection: did_cleanup_for_ball = False.
CAccept(c) ==
    /\ cpc[c] = "idle"
    /\ UNCHANGED notClean
    /\ nconn < ccfg.conns
    /\ nconn' = nconn + 1
    /\ cpc' = [cpc EXCEPT ![c] = "recv"]
    /\ clatch' = [clatch EXCEPT ![c] = FALSE]
    /\ crecs' = [crecs EXCEPT ![c] = 0]
    /\ cfirst' = [cfirst EXCEPT ![c] = <<>>]
    /\ cacks' = [cacks EXCEPT ![c] = 0]
    /\ UNCHANGED <<ccfg, clock, cfs, sent, slocks, cdest, cstart, chave, cstate,
                   cnow, cshould, deleted>>

\* Lines 66-101: the header of a record with dest_path d has been read.
\* Line 95 raises UnboundLocalError unless verbose bound `logger`: the
\* handler ends and the connection is closed. Otherwise the cleanup is
\* entered for the first record with a dest_path that has parts.
CRecord(c, d) ==
    /\ cpc[c] = "recv"
    /\ UNCHANGED notClean
    /\ crecs[c] < ccfg.recs
    /\ crecs' = [crecs EXCEPT ![c] = @ + 1]
    /\ cfirst' = [cfirst EXCEPT ![c] = IF crecs[c] = 0 THEN d ELSE @]
    /\ cstart' = [cstart EXCEPT ![c] = IF crecs[c] = 0 THEN clock ELSE @]
    /\ IF ~ccfg.verbose
       THEN /\ cpc' = [cpc EXCEPT ![c] = "idle"]
            /\ UNCHANGED cdest
       ELSE /\ cdest' = [cdest EXCEPT ![c] = d]
            /\ cpc' = [cpc EXCEPT ![c] =
                          IF ~clatch[c] /\ d # <<"">> /\ Parts(d) # <<>>
                          THEN "lock" ELSE "write"]
    /\ UNCHANGED <<ccfg, clock, cfs, sent, slocks, chave, cstate, cnow, cshould,
                   clatch, nconn, deleted,
                   cacks>>

\* Lines 115-128: makedirs(sentinel_dir), then the exclusive create of
\* sentinel_lock.
CTryLock(c) ==
    /\ cpc[c] = "lock"
    /\ UNCHANGED notClean
    /\ LET key == sentinel_done(ccfg.out_dir, ball_id(ccfg.out_dir, cdest[c]))
           fs == Makedirs(cfs, key.dir)
           ok == ExclCreate(fs, slocks, key)
       IN /\ cfs' = fs
          /\ chave' = [chave EXCEPT ![c] = ok]
          /\ slocks' = IF ok THEN slocks \cup {key} ELSE slocks
    /\ cpc' = [cpc EXCEPT ![c] = "read"]
    /\ UNCHANGED <<ccfg, clock, sent, cdest, cfirst, cstart, cstate, cnow,
                   cshould, clatch, crecs, nconn, deleted,
                   cacks>>

\* Lines 130-145: read the sentinel, take the time, reset after the TTL,
\* decide should_cleanup.
CReadState(c) ==
    /\ cpc[c] = "read"
    /\ UNCHANGED notClean
    /\ LET key == sentinel_done(ccfg.out_dir, ball_id(ccfg.out_dir, cdest[c]))
           onDisk == IF key \in DOMAIN sent THEN sent[key]
                     ELSE [count |-> 0, ts |-> 0]
           state == IF ccfg.ttl > 0 /\ clock - onDisk.ts >= ccfg.ttl
                    THEN [count |-> 0, ts |-> clock] ELSE onDisk
       IN /\ cstate' = [cstate EXCEPT ![c] = state]
          /\ cshould' = [cshould EXCEPT ![c] =
                            ccfg.max_count > 0 /\ state.count < ccfg.max_count]
    /\ cnow' = [cnow EXCEPT ![c] = clock]
    /\ cpc' = [cpc EXCEPT ![c] = "clean"]
    /\ UNCHANGED <<ccfg, clock, cfs, sent, slocks, cdest, cfirst, cstart, chave,
                   clatch, crecs, nconn, deleted,
                   cacks>>

\* One turn of `for target in targets`, lines 153-164: the directories left
\* and the rmtree calls made.
CleanTarget(acc, target) ==
    LET target_norm == normpath(target)
    IN IF Guard(target_norm, base_guard(ccfg.out_dir)) /\ Exists(acc.fs, target_norm)
       THEN [fs |-> Rmtree(acc.fs, target_norm),
             log |-> Append(acc.log, [path |-> target_norm, t |-> clock])]
       ELSE acc

\* Lines 147-171: with should_cleanup and have_lock, delete the targets,
\* bump the count and rewrite the sentinel; the write fails, unnoticed, when
\* the sentinel's directory is gone.
CCleanup(c) ==
    /\ cpc[c] = "clean"
    /\ UNCHANGED notClean
    /\ IF cshould[c] /\ chave[c]
       THEN LET ball == ball_id(ccfg.out_dir, cdest[c])
                key == sentinel_done(ccfg.out_dir, ball)
                tg == targets(ccfg.out_dir, ball)
                r1 == CleanTarget([fs |-> cfs, log |-> deleted], tg[1])
                r2 == CleanTarget(r1, tg[2])
                gone(k) == ~Exists(r2.fs, k.dir)
                kept == [k \in {k \in DOMAIN sent : ~gone(k)} |-> sent[k]]
                new == [count |-> cstate[c].count + 1, ts |-> cnow[c]]
            IN /\ cfs' = r2.fs
               /\ deleted' = r2.log
               /\ slocks' = {k \in slocks : ~gone(k)}
               /\ sent' = IF gone(key) THEN kept
                          ELSE [k \in DOMAIN kept \cup {key} |->
                                    IF k = key THEN new ELSE kept[k]]
               /\ cstate' = [cstate EXCEPT ![c] = new]
       ELSE UNCHANGED <<cfs, deleted, slocks, sent, cstate>>
    /\ cpc' = [cpc EXCEPT ![c] = "release"]
    /\ UNCHANGED <<ccfg, clock, cdest, cfirst, cstart, chave, cnow, cshould,
                   clatch, crecs, nconn,
                   cacks>>

\* Lines 172-179: remove the lock file if this worker made it, set the latch.
CRelease(c) ==
    /\ cpc[c] = "release"
    /\ UNCHANGED notClean
    /\ slocks' = IF chave[c]
                 THEN slocks \ {sentinel_done(ccfg.out_dir,
                                              ball_id(ccfg.out_dir, cdest[c]))}
                 ELSE slocks
    /\ clatch' = [clatch EXCEPT ![c] = TRUE]
    /\ cpc' = [cpc EXCEPT ![c] = "write"]
    /\ chave' = [chave EXCEPT ![c] = FALSE]
    /\ cstate' = [cstate EXCEPT ![c] = [count |-> 0, ts |-> 0]]
    /\ cnow' = [cnow EXCEPT ![c] = 0]
    /\ cshould' = [cshould EXCEPT ![c] = FALSE]
    /\ UNCHANGED <<ccfg, clock, cfs, sent, cdest, cfirst, cstart, crecs, nconn,
                   deleted,
                   cacks>>

\* Lines 181-208: the directory of final_path is made, the file is written
\* and renamed into place, the ACK is sent.
CWrite(c) ==
    /\ cpc[c] = "write"
    /\ UNCHANGED notClean
    /\ cfs' = Makedirs(cfs, FinalDir(ccfg.out_dir, cdest[c]))
    /\ cdest' = [cdest EXCEPT ![c] = <<>>]
    /\ cacks' = [cacks EXCEPT ![c] = @ + 1]
    /\ cpc' = [cpc EXCEPT ![c] = "recv"]
    /\ UNCHANGED <<ccfg, clock, sent, slocks, cfirst, cstart, chave, cstate, cnow,
                   cshould, clatch, crecs, nconn, deleted>>

\* Lines 66-71: the peer closed the connection.
CClose(c) ==
    /\ cpc[c] = "recv"
    /\ UNCHANGED notClean
    /\ cpc' = [cpc EXCEPT ![c] = "idle"]
    /\ UNCHANGED <<ccfg, clock, cfs, sent, slocks, cdest, cfirst, cstart, chave,
                   cstate, cnow, cshould, clatch, crecs, nconn, deleted,
                   cacks>>

\* A second passes.
Tick ==
    /\ clock < CleanupTTL + ccfg.ticks
    /\ UNCHANGED notClean
    /\ clock' = clock + 1
    /\ UNCHANGED <<ccfg, cfs, sent, slocks, cpc, cdest, cfirst, cstart, chave,
                   cstate, cnow, cshould, clatch, crecs, nconn, deleted,
                   cacks>>

(***************************************************************************)
(* SpecCleanup: NWorkers workers of the receiver of /dst/camera01 serve    *)
(* connections whose records belong to capture capA or carry the name of   *)
(* the sentinel directory as their capture.                                *)
(* SpecGuard: one connection whose one record carries any dest_path of up  *)
(* to MaxDepth components, for several forms of out_dir, over one second.  *)
(***************************************************************************)
CapADest == <<"capA", "camera01", "f">>
CaptureDests == {CapADest, <<".recv_sentinels", "camera01", "f">>}

GuardComps == {"", ".", "..", "capA", "camera01"}
GuardDests == UNION {[1..n -> GuardComps] : n \in 1..MaxDepth}

DstCamera == <<"", "dst", "camera01">>
OutDirs == {DstCamera, <<"", "dst", "camera01", "">>,
            <<"", "dst", "camera01", "..">>, <<"camera01">>}

CleanStarted(cfgs) ==
    /\ ccfg \in cfgs
    /\ clock = CleanupTTL
    /\ cfs = [made |-> {}, gone |-> {}]
    /\ sent = [k \in {} |-> [count |-> 0, ts |-> 0]]
    /\ slocks = {}
    /\ cpc = [c \in CWorkers |-> "idle"]
    /\ cdest = [c \in CWorkers |-> <<>>]
    /\ cfirst = [c \in CWorkers |-> <<>>]
    /\ cstart = [c \in CWorkers |-> 0]
    /\ chave = [c \in CWorkers |-> FALSE]
    /\ cstate = [c \in CWorkers |-> [count |-> 0, ts |-> 0]]
    /\ cnow = [c \in CWorkers |-> 0]
    /\ cshould = [c \in CWorkers |-> FALSE]
    /\ clatch = [c \in CWorkers |-> FALSE]
    /\ crecs = [c \in CWorkers |-> 0]
    /\ cacks = [c \in CWorkers |-> 0]
    /\ nconn = 0
    /\ deleted = <<>>

InitCleanup ==
    /\ Idle({"clean"})
    /\ CleanStarted([out_dir : {DstCamera}, verbose : BOOLEAN, max_count : 0..MaxCount,
                     ttl : {0, CleanupTTL}, stale : BOOLEAN, dests : {"capture"},
                     conns : {MaxConns}, recs : {MaxRecs}, ticks : {MaxTicks}])

InitGuard ==
    /\ Idle({"clean"})
    /\ CleanStarted([out_dir : OutDirs, verbose : {TRUE}, max_count : {1},
                     ttl : {CleanupTTL}, stale : {TRUE}, dests : {"guard"},
                     conns : {1}, recs : {1}, ticks : {1}])

CleanNext ==
    \/ \E c \in CWorkers :
          \/ CAccept(c)
          \/ \E d \in (IF ccfg.dests = "guard" THEN GuardDests ELSE CaptureDests) :
                CRecord(c, d)
          \/ CTryLock(c) \/ CReadState(c) \/ CCleanup(c) \/ CRelease(c)
          \/ CWrite(c) \/ CClose(c)
    \/ Tick

SpecCleanup == InitCleanup /\ [][CleanNext]_vars

SpecGuard == InitGuard /\ [][CleanNext]_vars

\* The tree of a capture under out_dir, and the rmtree calls made on a path.
TreeOf(ball) == normpath(join(ccfg.out_dir, <<ball>>))
Deletions(path) == {i \in 1..Len(deleted) : deleted[i].path = path}

\* Two workers have each received and ACKed, as the first record of the only
\* two connections so far, a file of capture capA whose tree existed, with
\* cleanup_max_count = 1, and the time since the first of them arrived is
\* shorter than the TTL.
C8_Case(c1, c2) ==
    /\ c1 # c2
    /\ ccfg.max_count = 1
    /\ ccfg.stale
    /\ nconn = 2
    /\ \A c \in {c1, c2} : cfirst[c] = CapADest /\ cacks[c] >= 1
    /\ \/ ccfg.ttl = 0
       \/ clock - Min(cstart[c1], cstart[c2]) < ccfg.ttl

C8_Done ==
    /\ Cardinality(Deletions(TreeOf("capA"))) = 1
    /\ sentinel_done(ccfg.out_dir, "capA") \in DOMAIN sent
    /\ sent[sentinel_done(ccfg.out_dir, "capA")].count = 1

C9_AtMostMaxCount ==
    /\ ccfg.max_count = 0 => deleted = <<>>
    /\ ccfg.ttl > 0 =>
          \A i \in 1..Len(deleted) :
              Cardinality({j \in Deletions(deleted[i].path) :
                              /\ deleted[j].t >= deleted[i].t
                              /\ deleted[j].t < deleted[i].t + ccfg.ttl})
                  <= ccfg.max_count

\* C26: a file of a capture that has been renamed into place and ACKed is
\* never deleted afterwards by the per-capture cleanup while the capture is
\* being received: no step removes a directory that a worker made for a
\* file of capture capA it has written and ACKed.
C26_AckedFileIsKept ==
    [][\A d \in cfs.made : IsPrefix(TreeOf("capA"), d) => d \in cfs'.made]_vars

\* A path lies strictly inside a directory: below it, and not the
\* directory itself.
StrictlyInside(path, base) ==
    LET b == IF base = <<".">> THEN <<>>
             ELSE IF \A i \in 1..Len(base) : base[i] = "" THEN <<"">>
             ELSE base
    IN /\ Len(path) > Len(b)
       /\ SubSeq(path, 1, Len(b)) = b
       /\ \A i \in (Len(b) + 1)..Len(path) : path[i] \notin {"", ".", ".."}

\* C10: every tree the cleanup deletes has a normalized path strictly
\* inside dest_base, the parent of out_dir, for every received dest_path.
C10_InsideDestBase ==
    \A i \in 1..Len(deleted) :
        StrictlyInside(deleted[i].path, normpath(dirname(ccfg.out_dir)))

\* C24: every file the receiver creates lies under out_dir: when a worker
\* writes a record's file, the directory that holds final_path and its
\* .part file (tmp_path is final_path + ".part", so both are entries of
\* dirname(final_path)) is out_dir or lies inside it, for every received
\* dest_path, absolute ones and ones with ".." included.
C24_CreatedUnderOutDir ==
    [][\A c \in CWorkers :
          (cpc[c] = "write" /\ cpc'[c] = "recv") =>
              LET d == FinalDir(ccfg.out_dir, cdest[c])
                  root == normpath(ccfg.out_dir)
              IN d = root \/ StrictlyInside(d, root)]_vars

\* A worker has just deleted a tree for a record whose dest_path is
\* absolute or holds "..".
C10_Witness ==
    \E c \in CWorkers :
        /\ cpc[c] = "release"
        /\ \/ IsAbs(cdest[c])
           \/ \E k \in 1..Len(cdest[c]) : cdest[c][k] = ".."
        /\ \E i \in 1..Len(deleted) :
              deleted[i].path = normpath(targets(ccfg.out_dir,
                                    ball_id(ccfg.out_dir, cdest[c]))[1])


(***************************************************************************)
(* The store group: the workers of one receiver (--workers, --reuseport)   *)
(* each on a connection of its own, receiving records for one and the same *)
(* final_path, so through one and the same tmp_path = final_path + ".part" *)
(* (lines 186-208). A file is an inode; a path names an inode; an open     *)
(* file writes to its inode whatever the paths name afterwards.            *)
(***************************************************************************)
\* The payload of record r: PayloadSize bytes r. Record 0 is the file an
\* earlier run stored.
Payload(r) == [i \in 1..PayloadSize |-> r]

\* f.write(bytes) at offset off of an unbuffered file: a hole reads as 0.
WriteAt(content, off, bytes) ==
    [i \in 1..(IF Len(content) > off + Len(bytes) THEN Len(content)
               ELSE off + Len(bytes)) |->
        IF i > off /\ i <= off + Len(bytes) THEN bytes[i - off]
        ELSE IF i <= Len(content) THEN content[i] ELSE 0]

\* A file that no path names and no worker has open is gone: its inode
\* keeps no content.
Collect(files, lk, fds) ==
    [i \in DOMAIN files |->
        IF i \in {lk.part, lk.final} \cup {fds[w] : w \in DOMAIN fds}
        THEN files[i] ELSE <<>>]

\* The except clause: `if os.path.exists(tmp_path): os.remove(tmp_path)`.
TmpKept(lk) == lk
TmpRemoved(lk) == [lk EXCEPT !.part = 0]

\* A record's header has been read (on a new connection or on the worker's
\* current one); final_path and tmp_path are computed; remaining = size.
PRecord(w) ==
    /\ ppc[w] \in {"off", "idle"}
    /\ nrec < MaxPayloads
    /\ UNCHANGED notStore
    /\ nrec' = nrec + 1
    /\ prec' = [prec EXCEPT ![w] = nrec + 1]
    /\ pneed' = [pneed EXCEPT ![w] = PayloadSize]
    /\ pold' = [pold EXCEPT ![w] = plink.final]
    /\ ppc' = [ppc EXCEPT ![w] = "open"]
    /\ UNCHANGED <<pcfg, inodes, plink, pfd, poff, pdone, pfails>>

\* open(tmp_path, "wb", buffering=0): creates the file, or truncates the one
\* that is there.
POpen(w) ==
    /\ ppc[w] = "open"
    /\ UNCHANGED notStore
    /\ IF plink.part = 0
       THEN /\ inodes' = Append(inodes, <<>>)
            /\ plink' = [plink EXCEPT !.part = Len(inodes) + 1]
            /\ pfd' = [pfd EXCEPT ![w] = Len(inodes) + 1]
       ELSE /\ inodes' = [inodes EXCEPT ![plink.part] = <<>>]
            /\ plink' = plink
            /\ pfd' = [pfd EXCEPT ![w] = plink.part]
    /\ poff' = [poff EXCEPT ![w] = 0]
    /\ ppc' = [ppc EXCEPT ![w] = "recv"]
    /\ UNCHANGED <<pcfg, prec, pneed, pold, nrec, pdone, pfails>>

\* One turn of `while remaining`: conn.recv returns k bytes, f.write.
PRecvChunk(w, k) ==
    /\ ppc[w] = "recv"
    /\ k <= pneed[w]
    /\ UNCHANGED notStore
    /\ inodes' = [inodes EXCEPT ![pfd[w]] =
                     WriteAt(@, poff[w], [i \in 1..k |-> prec[w]])]
    /\ poff' = [poff EXCEPT ![w] = @ + k]
    /\ pneed' = [pneed EXCEPT ![w] = @ - k]
    /\ UNCHANGED <<pcfg, plink, ppc, prec, pfd, pold, nrec, pdone, pfails>>

\* The except clause and what follows it: f is closed by its `with` block,
\* tmp_path is removed if it exists, the exception goes on to the outer `except Exception: pass` and the
\* `with conn` block closes the connection.
PFail(w) ==
    /\ plink' = TmpRemoved(plink)
    /\ pfd' = [pfd EXCEPT ![w] = 0]
    /\ inodes' = Collect(inodes, plink', pfd')
    /\ pfails' = pfails \cup {prec[w]}
    /\ ppc' = [ppc EXCEPT ![w] = "off"]
    /\ prec' = [prec EXCEPT ![w] = 0]
    /\ pneed' = [pneed EXCEPT ![w] = 0]
    /\ poff' = [poff EXCEPT ![w] = 0]
    /\ pold' = [pold EXCEPT ![w] = 0]
    /\ UNCHANGED <<pcfg, nrec, pdone>>

\* conn.recv returns b"" while remaining > 0 (the peer closed), or raises.
PPeerClosed(w) ==
    /\ ppc[w] = "recv"
    /\ pneed[w] > 0
    /\ UNCHANGED notStore
    /\ PFail(w)

\* remaining = 0: flush, fsync, close, os.replace(tmp_path, final_path). The
\* replace raises when tmp_path is gone and when final_path is a directory.
PReplace(w) ==
    /\ ppc[w] = "recv"
    /\ pneed[w] = 0
    /\ UNCHANGED notStore
    /\ IF plink.part # 0 /\ pcfg # "dir"
       THEN /\ plink' = [part |-> 0, final |-> plink.part]
            /\ pfd' = [pfd EXCEPT ![w] = 0]
            /\ inodes' = Collect(inodes, plink', pfd')
            /\ ppc' = [ppc EXCEPT ![w] = "ack"]
            /\ poff' = [poff EXCEPT ![w] = 0]
            /\ pold' = [pold EXCEPT ![w] = 0]
            /\ UNCHANGED <<pcfg, prec, pneed, nrec, pdone, pfails>>
       ELSE PFail(w)

\* conn.sendall(b"\x00"); the handler goes on to the counter update and to
\* the next record.
PAck(w) ==
    /\ ppc[w] = "ack"
    /\ UNCHANGED notStore
    /\ pdone' = pdone \cup {prec[w]}
    /\ ppc' = [ppc EXCEPT ![w] = "idle"]
    /\ prec' = [prec EXCEPT ![w] = 0]
    /\ UNCHANGED <<pcfg, inodes, plink, pneed, pfd, poff, pold, nrec, pfails>>

\* The receiver has started; at final_path there is nothing, or the file of
\* record 0, or a directory.
InitStore ==
    /\ Idle({"store"})
    /\ pcfg \in {"none", "file", "dir"}
    /\ inodes = IF pcfg = "file" THEN <<Payload(0)>> ELSE <<>>
    /\ plink = [part |-> 0, final |-> IF pcfg = "file" THEN 1 ELSE 0]
    /\ ppc = [w \in CWorkers |-> "off"]
    /\ prec = [w \in CWorkers |-> 0]
    /\ pneed = [w \in CWorkers |-> 0]
    /\ pfd = [w \in CWorkers |-> 0]
    /\ poff = [w \in CWorkers |-> 0]
    /\ pold = [w \in CWorkers |-> 0]
    /\ nrec = 0
    /\ pdone = {}
    /\ pfails = {}

StoreNext ==
    \E w \in CWorkers :
        \/ PRecord(w) \/ POpen(w)
        \/ (\E k \in 1..PayloadSize : PRecvChunk(w, k))
        \/ PPeerClosed(w) \/ PReplace(w) \/ PAck(w)

SpecStore == InitStore /\ [][StoreNext]_vars

\* The workers that are between computing tmp_path and the ACK.
InFlight == {w \in CWorkers : ppc[w] \in {"open", "recv", "ack"}}

\* C15: in every reachable state a file that exists at final_path holds the
\* complete payload of exactly one received record, never a prefix and never
\* bytes of two records, also when two workers receive for the same
\* final_path at the same time and so use the same .part file.
C15_FinalIsOnePayload ==
    plink.final # 0 => \E r \in 0..nrec : inodes[plink.final] = Payload(r)

\* C14: at the moment the receiver sends the ACK for a record, and in every
\* later state in which no transfer to that final_path is in flight,
\* final_path + ".part" does not exist.
C14_NoPartAfterAck ==
    /\ [][\A w \in CWorkers :
             (ppc[w] = "ack" /\ ppc'[w] = "idle") => plink.part = 0]_vars
    /\ [](InFlight = {} => plink.part = 0)

\* C13: when the connection closes or an error occurs while a payload is
\* received or renamed, the handler removes final_path.part, sends no ACK
\* for the record and does not go on to the counter update, leaves
\* final_path as it is (it never writes to the file final_path named when
\* the record began) and closes the connection.
C13_FailureIsClean ==
    /\ [][\A w \in CWorkers :
             (ppc[w] = "recv" /\ ppc'[w] \notin {"recv", "ack"}) =>
                 /\ ppc'[w] = "off"
                 /\ plink'.part = 0
                 /\ plink'.final = plink.final
                 /\ plink.final # 0 => inodes'[plink.final] = inodes[plink.final]
                 /\ pdone' = pdone
                 /\ prec[w] \notin pdone]_vars
    /\ [](\A w \in CWorkers : ppc[w] = "recv" => pfd[w] # pold[w])
    /\ [](pdone \cap pfails = {})

\* A record failed while its .part file existed and final_path named the
\* file of an earlier record.
C13_Witness ==
    /\ pcfg = "file"
    /\ pfails # {}
    /\ plink.part = 0
    /\ Len(inodes) >= 2
    /\ \A w \in CWorkers : ppc[w] = "off"


(***************************************************************************)
(* The bridge group: run_senders_from_config.py --zmq-sub, the loop that   *)
(* turns trigger messages into sender launches (lines 222-274). A string   *)
(* is the list of its characters.                                          *)
(***************************************************************************)
DigitChars == <<"0", "1", "2", "3", "4", "5", "6", "7", "8", "9">>
IsDigitChar(c) == \E i \in 1..10 : DigitChars[i] = c
FramePrefix == <<"f", "r", "a", "m", "e", "_">>
JpgExt == <<".", "j", "p", "g">>

\* re.match(r"frame_[^_]+_(\d{9})\.jpg$", frame_id): the set of the digit
\* groups of the matches (one, or none when there is no match). `[^_]+`
\* ends at the first "_" after "frame_"; `$` matches at the end of the
\* string and also just before a newline that ends the string.
FrameMatch(s) ==
    {SubSeq(s, i + 1, i + FrameDigits) : i \in
        {i \in 8..Len(s) :
            /\ SubSeq(s, 1, 6) = FramePrefix
            /\ s[i] = "_"
            /\ \A k \in 7..(i - 1) : s[k] # "_"
            /\ Len(s) >= i + FrameDigits + 4
            /\ \A k \in (i + 1)..(i + FrameDigits) : IsDigitChar(s[k])
            /\ SubSeq(s, i + FrameDigits + 1, i + FrameDigits + 4) = JpgExt
            /\ \/ Len(s) = i + FrameDigits + 4
               \/ Len(s) = i + FrameDigits + 5 /\ s[Len(s)] = "\n"}}

\* parse_frame_number_from_id: int(m.group(1)).
parse_frame_number_from_id(s) ==
    LET d == CHOOSE d \in FrameMatch(s) : TRUE
    IN DigitsValue([k \in 1..Len(d) |-> (CHOOSE i \in 1..10 : DigitChars[i] = d[k]) - 1])

\* suffix = f"{num:09d}"
Suffix(num) ==
    LET d == make_name(num, FrameDigits)
    IN [k \in 1..Len(d) |-> DigitChars[d[k] + 1]]

\* One turn of the loop of lines 222-274 on message m: decode, the
\* isStopped test, the frame_id tests, the forward and the launch (which
\* returns when the senders it started have ended).
BMessage(m) ==
    /\ bcount < MaxMsgs
    /\ UNCHANGED notBridge
    /\ bcount' = bcount + 1
    /\ blast' = m
    /\ IF /\ m.kind = "dict"
          /\ m.isStopped # "true"
          /\ m.frame_id.kind = "str"
          /\ FrameMatch(m.frame_id.s) # {}
       THEN /\ forwarded' = IF bcfg.forward_pub THEN Append(forwarded, m)
                            ELSE forwarded
            /\ spawned' = Append(spawned,
                             [start_after_suffix |->
                                  Suffix(parse_frame_number_from_id(m.frame_id.s)),
                              ball_id |-> m.ball_id])
       ELSE UNCHANGED <<forwarded, spawned>>
    /\ UNCHANGED bcfg

(***************************************************************************)
(* SpecBridge: the bridge receives up to MaxMsgs messages: payloads that   *)
(* are not JSON, JSON values that are not objects, and objects with or     *)
(* without isStopped and frame_id, the frame_id built around the pattern   *)
(* frame_<camera>_<9 digits>.jpg.                                          *)
(***************************************************************************)
\* n digits, the last one a 7.
DigitRun(n) == [k \in 1..n |-> IF k = n THEN "7" ELSE "0"]

FrameIds ==
    {pre \o cam \o <<"_">> \o DigitRun(n) \o ext :
        pre \in {FramePrefix, <<"x">> \o FramePrefix},
        cam \in {<<>>, <<"c">>},
        n \in {FrameDigits - 1, FrameDigits, FrameDigits + 1},
        ext \in {JpgExt, JpgExt \o <<"\n">>, JpgExt \o <<"x">>,
                 <<".", "p", "n", "g">>}}

FrameIdFields ==
    {[kind |-> "absent", s |-> <<>>], [kind |-> "number", s |-> <<>>]}
        \cup {[kind |-> "str", s |-> f] : f \in FrameIds}

Messages ==
    {[kind |-> "not json"], [kind |-> "list"]}
        \cup [kind : {"dict"}, isStopped : {"absent", "true", "string"},
              frame_id : FrameIdFields, ball_id : {"A"}]

InitBridge ==
    /\ Idle({"bridge"})
    /\ bcfg \in [forward_pub : BOOLEAN]
    /\ bcount = 0
    /\ blast = [kind |-> "none"]
    /\ spawned = <<>>
    /\ forwarded = <<>>

BridgeNext == \E m \in Messages : BMessage(m)

SpecBridge == InitBridge /\ [][BridgeNext]_vars

\* The frame_id is frame_<camera>_<9 digits>.jpg, for any non-empty camera.
IsFrameId(s) ==
    \E i \in 8..Len(s) :
        /\ SubSeq(s, 1, 6) = FramePrefix
        /\ s[i] = "_"
        /\ Len(s) = i + FrameDigits + 4
        /\ \A k \in (i + 1)..(i + FrameDigits) : IsDigitChar(s[k])
        /\ SubSeq(s, i + FrameDigits + 1, Len(s)) = JpgExt

\* C25: a trigger message whose isStopped field is true, or whose frame_id
\* is not of the form frame_<camera>_<9 digits>.jpg, has no effect in the
\* bridge: no sender is launched for it and it is not forwarded.
C25_IgnoredHasNoEffect ==
    [][(/\ bcount' = bcount + 1
        /\ blast'.kind = "dict"
        /\ \/ blast'.isStopped = "true"
           \/ blast'.frame_id.kind = "str" /\ ~IsFrameId(blast'.frame_id.s))
            => (spawned' = spawned /\ forwarded' = forwarded)]_vars


(***************************************************************************)
(* The pool group: the sender's main thread, its args.conns worker threads *)
(* and the queue between them, with a receiver that has kcfg.workers       *)
(* worker processes, each of which handles one connection until it is      *)
(* closed and only then accepts the next (worker, lines 269-273).          *)
(***************************************************************************)
\* main, `for _ in threads: q.put(None)`: the number of None items put.
PoisonCountShort(n) == n - 1
PoisonCount(n) == n

\* main, the backlog loop: q.put((full, name, dest_path)).
MPut ==
    /\ mpc = "enqueue"
    /\ UNCHANGED notPool
    /\ menq < kcfg.files
    /\ menq' = menq + 1
    /\ q' = Append(q, menq + 1)
    /\ unfinished' = unfinished + 1
    /\ UNCHANGED <<kcfg, mpc, thpc, titem, tretry, tsock, rserve, tdone, poisons,
                   sentok, error_q, kfiles, tload, kexit>>

\* main: the backlog loop has ended and q.join() returns: every put has been
\* matched by a task_done.
MJoin ==
    /\ mpc = "enqueue"
    /\ UNCHANGED notPool
    /\ menq = kcfg.files
    /\ unfinished = 0
    /\ mpc' = "stop"
    /\ UNCHANGED <<kcfg, q, unfinished, menq, thpc, titem, tretry, tsock, rserve,
                   tdone, poisons, sentok, error_q, kfiles, tload, kexit>>

\* main: for _ in threads: q.put(None).
MStop ==
    /\ mpc = "stop"
    /\ UNCHANGED notPool
    /\ q' = q \o [k \in 1..PoisonCount(kcfg.conns) |-> 0]
    /\ unfinished' = unfinished + PoisonCount(kcfg.conns)
    /\ mpc' = "join"
    /\ UNCHANGED <<kcfg, menq, thpc, titem, tretry, tsock, rserve, tdone, poisons,
                   sentok, error_q, kfiles, tload, kexit>>

\* main: for t in threads: t.join() returns, then the statistics and
\* sys.exit(1) if error_q held anything, else the end of main.
MJoinThreads ==
    /\ mpc = "join"
    /\ UNCHANGED notPool
    /\ \A t \in (1..kcfg.conns) : thpc[t] = "exit"
    /\ mpc' = "done"
    /\ kexit' = IF error_q # {} THEN 1 ELSE 0
    /\ UNCHANGED <<kcfg, q, unfinished, menq, thpc, titem, tretry, tsock, rserve,
                   tdone, poisons, sentok, error_q, kfiles, tload>>

\* worker_thread: item = q.get(); for None the loop ends, the socket is
\* closed and the thread exits; else retry_count = 0 and the attempts begin.
TGet(t) ==
    /\ thpc[t] = "get"
    /\ UNCHANGED notPool
    /\ q # <<>>
    /\ q' = Tail(q)
    /\ IF Head(q) = 0
       THEN /\ poisons' = [poisons EXCEPT ![t] = @ + 1]
            /\ tsock' = [tsock EXCEPT ![t] = 0]
            /\ rserve' = rserve \ {t}
            /\ thpc' = [thpc EXCEPT ![t] = "exit"]
            /\ UNCHANGED <<titem, tretry>>
       ELSE /\ titem' = [titem EXCEPT ![t] = Head(q)]
            /\ tretry' = [tretry EXCEPT ![t] = 0]
            /\ thpc' = [thpc EXCEPT ![t] = "try"]
            /\ UNCHANGED <<poisons, tsock, rserve>>
    /\ UNCHANGED <<kcfg, unfinished, mpc, menq, tdone, sentok, error_q, kfiles, tload, kexit>>

\* worker_thread, one attempt: create_connection if sock is None (the
\* kernel completes the connection into the listen backlog whether or not a
\* receiver worker is in accept), then send_file writes the record; it then
\* blocks in `ack = sock.recv(1)`, on a socket with no timeout.
TSend(t) ==
    /\ thpc[t] = "try"
    /\ UNCHANGED notPool
    /\ tsock' = [tsock EXCEPT ![t] = 1]
    /\ thpc' = [thpc EXCEPT ![t] = "ack"]
    /\ UNCHANGED <<kcfg, q, unfinished, mpc, menq, titem, tretry, rserve, tdone,
                   poisons, sentok, error_q, kfiles, tload, kexit>>

\* The receiver worker that handles t's connection has stored the file and
\* sent the ACK; sock.recv(1) returns it and `counters["files"] += 1` begins:
\* the thread loads the value. No lock is held, and the load and the store
\* of the sum are separate steps of the interpreter.
TAck(t) ==
    /\ thpc[t] = "ack"
    /\ UNCHANGED notPool
    /\ t \in rserve
    /\ sentok' = sentok \cup {titem[t]}
    /\ tload' = [tload EXCEPT ![t] = kfiles]
    /\ thpc' = [thpc EXCEPT ![t] = "count"]
    /\ UNCHANGED <<kcfg, q, unfinished, mpc, menq, titem, tretry, tsock, rserve, tdone,
                   poisons, error_q, kfiles, kexit>>

\* `counters["files"] += 1` ends: the sum is stored; send_file returns,
\* success = True, q.task_done().
TCount(t) ==
    /\ thpc[t] = "count"
    /\ UNCHANGED notPool
    /\ kfiles' = tload[t] + 1
    /\ tload' = [tload EXCEPT ![t] = 0]
    /\ tdone' = [tdone EXCEPT ![titem[t]] = @ + 1]
    /\ unfinished' = unfinished - 1
    /\ thpc' = [thpc EXCEPT ![t] = "get"]
    /\ titem' = [titem EXCEPT ![t] = 0]
    /\ tretry' = [tretry EXCEPT ![t] = 0]
    /\ UNCHANGED <<kcfg, q, mpc, menq, tsock, rserve, poisons, sentok, error_q, kexit>>

\* The attempt ends with an exception (the connect is refused or times out,
\* the connection is reset, the receiver closes it without an ACK): the except
\* clause of lines 348-384 counts it, closes the socket and either reports
\* the file to error_queue and gives it up (q.task_done()) or goes on to the
\* next attempt.
TErr(t) ==
    /\ thpc[t] \in {"try", "ack"}
    /\ UNCHANGED notPool
    /\ tsock' = [tsock EXCEPT ![t] = 0]
    /\ rserve' = rserve \ {t}
    /\ IF Exhausted(tretry[t] + 1)
       THEN /\ error_q' = error_q \cup {titem[t]}
            /\ tdone' = [tdone EXCEPT ![titem[t]] = @ + 1]
            /\ unfinished' = unfinished - 1
            /\ thpc' = [thpc EXCEPT ![t] = "get"]
            /\ titem' = [titem EXCEPT ![t] = 0]
            /\ tretry' = [tretry EXCEPT ![t] = 0]
       ELSE /\ thpc' = [thpc EXCEPT ![t] = "try"]
            /\ tretry' = [tretry EXCEPT ![t] = @ + 1]
            /\ UNCHANGED <<error_q, tdone, unfinished, titem>>
    /\ UNCHANGED <<kcfg, q, mpc, menq, poisons, sentok, kfiles, tload, kexit>>

\* A receiver worker in srv.accept() (one that is not handling a connection)
\* takes a connection from the listen
\* backlog and calls handle_client on it.
RServe(t) ==
    /\ Cardinality(rserve) < kcfg.workers
    /\ UNCHANGED notPool
    /\ tsock[t] = 1
    /\ t \notin rserve
    /\ rserve' = rserve \cup {t}
    /\ UNCHANGED <<kcfg, q, unfinished, mpc, menq, thpc, titem, tretry, tsock,
                   tdone, poisons, sentok, error_q, kfiles, tload, kexit>>

InitPool ==
    /\ Idle({"pool"})
    /\ kcfg \in [conns : 1..Conns, workers : 1..Conns, files : 0..PoolFiles]
    /\ q = <<>>
    /\ unfinished = 0
    /\ mpc = "enqueue"
    /\ menq = 0
    /\ thpc = [t \in 1..Conns |-> IF t <= kcfg.conns THEN "get" ELSE "off"]
    /\ titem = [t \in 1..Conns |-> 0]
    /\ tretry = [t \in 1..Conns |-> 0]
    /\ tsock = [t \in 1..Conns |-> 0]
    /\ rserve = {}
    /\ tdone = [i \in 1..PoolFiles |-> 0]
    /\ poisons = [t \in 1..Conns |-> 0]
    /\ sentok = {}
    /\ error_q = {}
    /\ kfiles = 0
    /\ tload = [t \in 1..Conns |-> 0]
    /\ kexit = -1

PoolNext ==
    \/ MPut \/ MJoin \/ MStop \/ MJoinThreads
    \/ \E t \in (1..kcfg.conns) : TGet(t) \/ TSend(t) \/ TAck(t) \/ TCount(t) \/ TErr(t)
    \/ \E t \in (1..kcfg.conns) : RServe(t)

(***************************************************************************)
(* SpecPool: once mode with the scheduling of threads and processes: main  *)
(* and every worker thread go on when they can, and a receiver worker in   *)
(* accept takes a waiting connection. No attempt has to fail.              *)
(* SpecDrain: the same, and every attempt returns: one that does not       *)
(* succeed ends with an error.                                             *)
(***************************************************************************)
PoolFairness ==
    /\ WF_vars(MPut \/ MJoin \/ MStop \/ MJoinThreads)
    /\ \A t \in 1..Conns : WF_vars(TGet(t) \/ TSend(t) \/ TAck(t) \/ TCount(t))
    /\ WF_vars(\E t \in 1..Conns : RServe(t))

AttemptsReturn == \A t \in 1..Conns : WF_vars(TAck(t) \/ TErr(t))

SpecPool == InitPool /\ [][PoolNext]_vars /\ PoolFairness

SpecDrain == InitPool /\ [][PoolNext]_vars /\ PoolFairness /\ AttemptsReturn

C30_SenderTerminates ==
    /\ <>(mpc = "done")
    /\ [](\A i \in 1..PoolFiles : tdone[i] <= 1)
    /\ [](mpc \in {"stop", "join", "done"} => \A i \in 1..kcfg.files : tdone[i] = 1)
    /\ [](\A t \in 1..Conns : poisons[t] <= 1)
    /\ [](mpc = "done" =>
            \A t \in (1..kcfg.conns) : poisons[t] = 1 /\ tsock[t] = 0 /\ thpc[t] = "exit")

\* The sender has terminated after one file was ACKed and another was given
\* up, with two or more worker threads.
C30_Witness ==
    /\ mpc = "done"
    /\ kcfg.conns >= 2
    /\ sentok # {}
    /\ error_q # {}


(***************************************************************************)
(* The resend group: a sender with one worker thread whose attempts may    *)
(* fail (the connection is reset, an ACK does not arrive), and a receiver  *)
(* started with --verbose whose worker handles the thread's connections    *)
(* one after the other. The backlog is ucfg.files files of one capture,    *)
(* file i with the dest_path capA/camera01/<i> of its own.                 *)
(***************************************************************************)
\* worker_thread: q.get(); None ends the thread, which closes its socket.
UGet ==
    /\ upc = "get"
    /\ UNCHANGED notResend
    /\ IF uidx < ucfg.files
       THEN /\ uidx' = uidx + 1
            /\ upc' = "send"
            /\ usock' = usock
       ELSE /\ uidx' = uidx
            /\ upc' = "exit"
            /\ usock' = 0
    /\ uretry' = 0
    /\ UNCHANGED <<ucfg, uwire, uack, ustored, upaths, ucounters, uerrq>>

\* worker_thread, the try: connect if sock is None, then send_file writes the
\* record (header and payload) and goes on to `ack = sock.recv(1)`.
USend ==
    /\ upc = "send"
    /\ UNCHANGED notResend
    /\ usock' = 1
    /\ uwire' = uidx
    /\ upc' = "ack"
    /\ UNCHANGED <<ucfg, uidx, uretry, uack, ustored, upaths, ucounters, uerrq>>

\* handle_client, one turn of its loop on the record read: the payload is
\* written to tmp_path and renamed to final_path, the ACK is sent, and with
\* use_dest_paths (the dest_path has three parts) the capture's count in
\* state.json goes up by one, whatever final_path was; the update is dropped
\* only if state.lock is held by another at each of the five attempts.
HRecord ==
    /\ uwire # 0
    /\ UNCHANGED notResend
    /\ upaths' = upaths \cup {uwire}
    /\ uack' = uack + 1
    /\ \E locked \in BOOLEAN :
          ustored' = IF ucfg.use_dest_paths /\ ~locked THEN ustored + 1 ELSE ustored
    /\ uwire' = 0
    /\ UNCHANGED <<ucfg, upc, uidx, uretry, usock, ucounters, uerrq>>

\* send_file: sock.recv(1) returns the ACK; counters["files"] += 1; then
\* worker_thread's q.task_done().
UAck ==
    /\ upc = "ack"
    /\ UNCHANGED notResend
    /\ uack > 0
    /\ uack' = uack - 1
    /\ ucounters' = ucounters + 1
    /\ upc' = "get"
    /\ UNCHANGED <<ucfg, uidx, uretry, usock, uwire, ustored, upaths, uerrq>>

\* The attempt raises (create_connection fails, a send or sock.recv(1) ends
\* with ECONNRESET or ETIMEDOUT): worker_thread's except clause counts it and
\* closes the socket, and whatever was in flight on the connection is lost
\* with it; then the file is reported on error_queue, or the thread
\* reconnects and sends the same item again.
UFault ==
    /\ upc \in {"send", "ack"}
    /\ UNCHANGED notResend
    /\ uwire' = 0
    /\ uack' = 0
    /\ IF Exhausted(uretry + 1)
       THEN /\ uerrq' = uerrq \cup {uidx}
            /\ usock' = 0
            /\ uretry' = 0
            /\ upc' = "get"
       ELSE /\ uerrq' = uerrq
            /\ usock' = 1
            /\ uretry' = uretry + 1
            /\ upc' = "send"
    /\ UNCHANGED <<ucfg, uidx, ustored, upaths, ucounters>>

InitResend ==
    /\ Idle({"resend"})
    /\ ucfg \in [files : 1..ResendFiles, use_dest_paths : BOOLEAN]
    /\ upc = "get"
    /\ uidx = 0
    /\ uretry = 0
    /\ usock = 0
    /\ uwire = 0
    /\ uack = 0
    /\ ustored = 0
    /\ upaths = {}
    /\ ucounters = 0
    /\ uerrq = {}

ResendNext == UGet \/ USend \/ HRecord \/ UAck \/ UFault

SpecResend == InitResend /\ [][ResendNext]_vars

\* C28: the capture's stored count never exceeds the number of distinct
\* destination paths received for it: a file transmitted again after the
\* receiver had completed it is not counted a second time, so the count
\* reaches emit_threshold only when that many distinct files have arrived.
C28_CountWithinDistinctPaths ==
    /\ ustored <= Cardinality(upaths)
    /\ ustored >= EmitThreshold => Cardinality(upaths) >= EmitThreshold


(***************************************************************************)
(* The replay group: the receiver is run on a sequence of connections,     *)
(* each holding the bytes its peer wrote before closing it, first with     *)
(* --verbose; when it has handled them all, what it left is recorded and   *)
(* the receiver is started again without --verbose, with an empty out_dir, *)
(* on the same connections.                                                *)
(***************************************************************************)
\* What a run has produced: the files under out_dir, and the ACK bytes sent
\* on each connection.
Outcome == [files |-> rfsys, acks |-> [c \in 1..Len(conns) |-> conns[c].acks]]

\* The worker is back in srv.accept() and no connection is left.
RunOver == rpc = "idle" /\ rconn = Len(conns)

\* The connections of an input: the peer of each has written (after the
\* count, with expect_count_first) k whole records and closed.
ReplayInputs(ecf) ==
    UNION {[1..n -> {[data |-> (IF ecf THEN PackU64(k) ELSE <<>>) \o CountedRecords(k),
                      acks |-> 0, sclosed |-> TRUE, rclosed |-> FALSE] :
                        k \in 0..MaxRecs}] : n \in 1..MaxConns}

\* The second run: the same receiver arguments but for verbose, the same
\* connections, nothing received yet.
Replay ==
    /\ vrun = 1
    /\ RunOver
    /\ UNCHANGED notReplay
    /\ vrun' = 2
    /\ vfirst' = Outcome
    /\ wcfg' = [wcfg EXCEPT !.verbose = FALSE]
    /\ conns' = vinput
    /\ rconn' = 0
    /\ rpc' = "idle"
    /\ rfi' = 1
    /\ rneed' = 0
    /\ rflds' = <<>>
    /\ rremaining' = 0
    /\ rleft' = 0
    /\ rfsys' = <<>>
    /\ UNCHANGED <<vinput, sfiles, sidx, spc, soffset, sretry, wretry, sconn,
                   counters, errq, spayload>>

InitReplay ==
    /\ Idle({"wire", "replay"})
    /\ wcfg \in [verbose : {TRUE}, use_dest_paths : BOOLEAN, expect_count_first : BOOLEAN,
                 key : {<<>>}, side : {<<>>}, dest_path : {<<>>}]
    /\ sfiles = <<>>
    /\ sidx = 1
    /\ spc = "done"
    /\ soffset = 0
    /\ sretry = 0
    /\ wretry = 0
    /\ sconn = 0
    /\ counters = [files |-> 0, bytes |-> 0]
    /\ errq = <<>>
    /\ spayload = 0
    /\ conns \in ReplayInputs(wcfg.expect_count_first)
    /\ rconn = 0
    /\ rpc = "idle"
    /\ rfi = 1
    /\ rneed = 0
    /\ rflds = <<>>
    /\ rremaining = 0
    /\ rleft = 0
    /\ rfsys = <<>>
    /\ vrun = 1
    /\ vinput = conns
    /\ vfirst = [files |-> <<>>, acks |-> <<>>]

ReplayNext == CountNext \/ Replay

SpecReplay == InitReplay /\ [][ReplayNext]_vars

\* C29: the receiver's verbose flag affects only logging: on the same
\* sequence of connections and records, the run without --verbose leaves
\* the same files and has sent the same ACKs on every connection as the run
\* with --verbose (the cleanups and the counter updates, which handle_client
\* makes between the two and after the ACK, are then the same as well).
C29_VerboseOnlyLogs == (vrun = 2 /\ RunOver) => Outcome = vfirst


\* C31: at sender exit every enqueued file is accounted for exactly once:
\* its ACK was read and it is counted in counters["files"], or it is in the
\* error report, never both and never neither, with any number of worker
\* threads; and the exit status is non-zero exactly if the error report is
\* not empty.
C31_AccountedOnce ==
    mpc = "done" =>
        /\ \A i \in 1..kcfg.files : (i \in sentok) # (i \in error_q)
        /\ kfiles = Cardinality(sentok)
        /\ (kexit # 0) = (error_q # {})


\* C32: the counter update of a received and ACKed file whose dest_path has
\* at least three components raises the count of exactly that capture's
\* record by one and leaves the record of every other capture as it was.
C32_ReceiptCountsOne ==
    [][\A p \in Procs :
          (wpc[p] # "idle" /\ wpc'[p] = "idle") =>
              /\ StoredCount(statefile', wball[p])
                     = StoredCount(statefile, wball[p]) + 1
              /\ \A b \in Balls \ {wball[p]} :
                     StoredCount(statefile', b) = StoredCount(statefile, b)]_vars


\* C33: when wait_for_file_and_check_complete returns, the candidate is
\* enqueued if the file exists and is passed over, not enqueued, if it does
\* not exist or has disappeared during the wait, in particular when the wait
\* gives up at max_wait_seconds; last_name does not decrease.
C33_GiveUpByExistence ==
    [][(wst \in {"exists", "getsize", "loop"} /\ wst' = "none") =>
          /\ names[ni] \in srcdir => putlog' = Append(putlog, names[ni])
          /\ names[ni] \notin srcdir => putlog' = putlog
          /\ ~StrLess(last_name', last_name)]_vars

\* The for loop is at a candidate: a name greater than last_name.
AtCandidate ==
    /\ tpc \in {"backlog_for", "tail_for"}
    /\ wst = "none"
    /\ ni <= Len(names)
    /\ ~MaxReached
    /\ StrLess(last_name, names[ni])

\* The file numbered lookahead higher than the candidate exists in src_dir.
LookaheadFile ==
    /\ tcfg.lookahead > 0
    /\ \A i \in 1..Len(names[ni]) : names[ni][i] \in DigitSet
    /\ make_name(DigitsValue(names[ni]) + tcfg.lookahead, Len(names[ni])) \in srcdir

\* C36: a candidate whose lookahead file exists is enqueued at once, without
\* entering the wait; a candidate without one (no such file, no number in
\* the name, or lookahead = 0) enters the wait and is enqueued only when the
\* wait returns True from the stability loop.
C36_LookaheadFastPath ==
    [][/\ (AtCandidate /\ (ni' # ni \/ wst' # wst)) =>
              IF LookaheadFile
              THEN putlog' = Append(putlog, names[ni]) /\ wst' = "none"
              ELSE putlog' = putlog /\ wst' = "exists"
       /\ (putlog' # putlog /\ ~(AtCandidate /\ LookaheadFile)) => wst = "loop"]_vars

\* A scan of the tail phase is at a candidate whose lookahead file exists:
\* it is about to be enqueued without the wait.
C36_Witness ==
    /\ AtCandidate
    /\ LookaheadFile
    /\ tpc = "tail_for"

\* C37: with max_files > 0 the number of names enqueued never exceeds
\* max_files, in the backlog phase and in the tail phase, and once max_files
\* names are enqueued no scan of src_dir begins and no candidate is looked at.
C37_MaxFilesBound ==
    /\ [](tcfg.max_files > 0 =>
             /\ enqueued_files <= tcfg.max_files
             /\ Len(putlog) <= tcfg.max_files)
    /\ [][(tcfg.max_files > 0 /\ enqueued_files >= tcfg.max_files) =>
              /\ names' = names /\ ni' = ni /\ wst' = wst /\ putlog' = putlog
              /\ tpc' \in {tpc, "tail", "done"}]_vars

\* The sender has stopped with max_files names enqueued while a greater name
\* is in src_dir.
C37_Witness ==
    /\ tcfg.max_files > 0
    /\ enqueued_files = tcfg.max_files
    /\ tpc = "done"
    /\ \E n \in srcdir : StrLess(last_name, n)


(***************************************************************************)
(* SpecScan: the tail session of SpecTail in which the main thread keeps   *)
(* running: every step of its loops that can be taken is taken, and a wait *)
(* that can give up does so (max_wait_seconds pass).                       *)
(***************************************************************************)
ScanFairness ==
    /\ WF_vars(Discover) /\ WF_vars(ForName) /\ WF_vars(ForEnd) /\ WF_vars(TailEnd)
    /\ WF_vars(WaitForFile) /\ WF_vars(WaitFirstSize) /\ WF_vars(WaitStable)

SpecScan == InitTail /\ [][TailNext]_vars /\ ScanFairness

\* C34: in tail mode with max_files unlimited, every file with a name
\* greater than start_after that is in src_dir and stays there is eventually
\* enqueued, whatever was enqueued before it appeared and whether or not an
\* earlier pass skipped it.
C34_EveryFileEnqueued ==
    (tcfg.max_files = 0 /\ ~tcfg.once) =>
        \A n \in TNames :
            <>[](n \in srcdir /\ StrLess(tcfg.start_after, n))
                => <>(\E i \in 1..Len(putlog) : putlog[i] = n)


(***************************************************************************)
(* The derive group: the functions by which the bridge, the receiver       *)
(* worker and the aggregator derive keys, directories and capture ids.     *)
(* A key is a sequence of characters; a path is the sequence of its        *)
(* components, as in the cleanup group.                                    *)
(***************************************************************************)
KeyChars == {"A", "_", "V", "0"}
Keys == UNION {[1..n -> KeyChars] : n \in 1..MaxKeyLen}

V0 == <<"_", "V", "0">>

\* str.replace(old, ''): every occurrence of old, from the left, is left out.
RECURSIVE StrRemove(_, _)
StrRemove(s, old) ==
    IF Len(s) < Len(old) THEN s
    ELSE IF SubSeq(s, 1, Len(old)) = old
         THEN StrRemove(SubSeq(s, Len(old) + 1, Len(s)), old)
         ELSE <<Head(s)>> \o StrRemove(Tail(s), old)

\* aggregator_loop: f"{stored_dragonfly_key.replace('_V0', '')}_FRAMEPATHS"
framepaths_key(stored_dragonfly_key) ==
    StrRemove(stored_dragonfly_key, V0) \o <<"_FRAMEPATHS">>

\* aggregator_loop calls it for a stored key.
AggKey ==
    /\ zop = "none"
    /\ UNCHANGED notDerive
    /\ \E k \in Keys :
          /\ zop' = "framepaths_key"
          /\ zin' = k
          /\ zout' = framepaths_key(k)

CamNames == {"camera01", "camera02"}
CaptureIds == {"capA", "capB"}
SrcDirs == {<<"", "data", "camera01">>, <<"", "data", "camera01", "">>,
            <<"", "data", "cam1">>, <<"camera02">>}
DestBases == {<<"", "out">>, <<"", "out", "">>, <<"", "">>, <<"out">>, <<"o\\d">>}

\* str.replace('\\', '/') on a path: a component with a backslash in it
\* becomes two components.
RECURSIVE BackslashToSlash(_)
BackslashToSlash(p) ==
    IF p = <<>> THEN <<>>
    ELSE (IF Head(p) = "o\\d" THEN <<"o", "d">> ELSE <<Head(p)>>)
         \o BackslashToSlash(Tail(p))

extract_camera_name_from_src_dir(src_dir) == basename(normpath(src_dir))

construct_dest_path(camera_dest_path, capture, cam) ==
    IF camera_dest_path = <<"">> THEN <<"">>
    ELSE BackslashToSlash(join(join(camera_dest_path, <<capture>>), <<cam>>))

\* build_disk_paths: the path appended for the camera cam_name of the
\* configuration, whose dest_path is not empty.
build_disk_paths(cfg_dest_path, capture, cam_name) ==
    LET base == IF Len(cfg_dest_path) >= 2 /\ Last(cfg_dest_path) = ""
                THEN Front(cfg_dest_path) ELSE cfg_dest_path
    IN join(join(base, <<capture>>), <<cam_name>>)

\* launch_senders_with_suffix, lines 91-109, for one camera with src and
\* dest_path in its configuration: the --dest-path of its sender; and the
\* aggregator's disk path for the same camera and capture.
BridgeDest ==
    /\ zop = "none"
    /\ UNCHANGED notDerive
    /\ \E cam_name \in CamNames, src \in SrcDirs, dest \in DestBases, b \in CaptureIds :
          /\ zop' = "construct_dest_path"
          /\ zin' = [cam_name |-> cam_name, src |-> src, dest_path |-> dest, capture |-> b]
          /\ zout' = [sender |-> construct_dest_path(dest, b,
                                     extract_camera_name_from_src_dir(src)),
                      listed |-> build_disk_paths(dest, b, cam_name)]

\* handle_client, lines 216-219: parts[-3] of the non-empty components of
\* the normalised dest_path.
CounterParts(dest_path) == SelectSeq(normpath(dest_path), LAMBDA c : c # "")
counter_ball_id(dest_path) == CounterParts(dest_path)[Len(CounterParts(dest_path)) - 2]

PathNames == {"capA", "camera01", "f", ".."}
DestPaths == UNION {[1..n -> PathNames] : n \in 3..4}

\* handle_client on a record whose dest_path has at least three components:
\* the capture id of the cleanup (lines 98-108) and that of the counter
\* update.
RecvIds ==
    /\ zop = "none"
    /\ UNCHANGED notDerive
    /\ \E d \in DestPaths :
          /\ Parts(d) # <<>>
          /\ Len(CounterParts(d)) >= 3
          /\ zop' = "ball_id"
          /\ zin' = d
          /\ zout' = [cleanup |-> ball_id(<<"", "out", "camera01">>, d),
                      counter |-> counter_ball_id(d)]

(***************************************************************************)
(* SpecDerive: one of the three derivations applied to an input.           *)
(***************************************************************************)
InitDerive ==
    /\ Idle({"derive"})
    /\ zop = "none"
    /\ zin = <<>>
    /\ zout = <<>>

DeriveNext == AggKey \/ BridgeDest \/ RecvIds

SpecDerive == InitDerive /\ [][DeriveNext]_vars

\* C35: the key under which the disk paths are stored is the stored key
\* with only a trailing "_V0" removed, followed by "_FRAMEPATHS"; a "_V0"
\* that is not at the end of the key is kept.
C35_TrailingV0Only ==
    zop = "framepaths_key" =>
        zout = (IF Len(zin) >= 3 /\ SubSeq(zin, Len(zin) - 2, Len(zin)) = V0
                THEN SubSeq(zin, 1, Len(zin) - 3) ELSE zin) \o <<"_FRAMEPATHS">>

\* C39: for every camera and capture id, the directory the bridge passes to
\* the camera's sender is the disk path the aggregator lists for the camera:
\* <dest_path>/<capture id>/<camera id>.
C39_SenderDirIsListed ==
    zop = "construct_dest_path" =>
        /\ zout.sender = zout.listed
        /\ zout.listed = join(join(zin.dest_path, <<zin.capture>>), <<zin.cam_name>>)

\* C40: for a dest_path of at least three components the capture id of the
\* cleanup equals the capture id of the counter update.
C40_CleanedIsCounted ==
    zop = "ball_id" => zout.cleanup = zout.counter


(***************************************************************************)
(* The launch group: launch_senders_with_suffix without --detach and with  *)
(* --timeout-secs > 0, from the moment the for loop has started one thread *)
(* per camera. A subprocess is "running", "termed" (SIGTERM sent, not yet  *)
(* dead), or dead with status 0 ("exit0"), with another status ("exit1")   *)
(* or by a signal ("signalled").                                           *)
(***************************************************************************)
Alive(c) == lproc[c] \in {"running", "termed"}

\* results after the waits: 1 if an entry of results is not 0, else 0.
LaunchStatus == IF \E c \in 1..Senders : lresults[c] = "nonzero" THEN 1 ELSE 0

\* run_sender_thread: p = subprocess.Popen(cmd)
TPopen(c) ==
    /\ lpc[c] = "start"
    /\ UNCHANGED notLaunch
    /\ lproc' = [lproc EXCEPT ![c] = "running"]
    /\ lpc' = [lpc EXCEPT ![c] = "popen"]
    /\ UNCHANGED <<lcams, proc_map, lresults, lmain, lexp, lret>>

\* run_sender_thread: proc_map[(cam_name, port)] = p, then p.wait() begins.
TStore(c) ==
    /\ lpc[c] = "popen"
    /\ UNCHANGED notLaunch
    /\ proc_map' = proc_map \cup {c}
    /\ lpc' = [lpc EXCEPT ![c] = "wait"]
    /\ UNCHANGED <<lcams, lproc, lresults, lmain, lexp, lret>>

\* The sender subprocess ends: by itself with status 0 or 1 (it runs with
\* --once), or by the SIGTERM it was sent.
PExit(c) ==
    /\ Alive(c)
    /\ UNCHANGED notLaunch
    /\ \E st \in (IF lproc[c] = "termed" THEN {"signalled"} ELSE {"exit0", "exit1"}) :
          lproc' = [lproc EXCEPT ![c] = st]
    /\ UNCHANGED <<lcams, lpc, proc_map, lresults, lmain, lexp, lret>>

\* run_sender_thread: p.wait() returns, results[(cam_name, port)] = rc, and
\* the thread ends.
TResult(c) ==
    /\ lpc[c] = "wait"
    /\ UNCHANGED notLaunch
    /\ ~Alive(c)
    /\ lresults' = [lresults EXCEPT ![c] = IF lproc[c] = "exit0" THEN "zero"
                                           ELSE "nonzero"]
    /\ lpc' = [lpc EXCEPT ![c] = "end"]
    /\ UNCHANGED <<lcams, lproc, proc_map, lmain, lexp, lret>>

\* All threads have ended when still_alive is computed: the timeout branch
\* is not taken and the call returns by results.
LJoined ==
    /\ lmain = "join"
    /\ UNCHANGED notLaunch
    /\ \A c \in lcams : lpc[c] = "end"
    /\ lret' = LaunchStatus
    /\ lmain' = "returned"
    /\ UNCHANGED <<lcams, lpc, lproc, proc_map, lresults, lexp>>

\* The joins have used up timeout_secs and still_alive is not empty:
\* p.terminate() for every entry of proc_map with p.poll() None.
LTimeout ==
    /\ lmain = "join"
    /\ UNCHANGED notLaunch
    /\ \E c \in lcams : lpc[c] # "end"
    /\ lexp' = {c \in lcams : Alive(c)}
    /\ lproc' = [c \in 1..Senders |->
                    IF c \in proc_map /\ lproc[c] = "running" THEN "termed"
                    ELSE lproc[c]]
    /\ lmain' = "grace"
    /\ UNCHANGED <<lcams, lpc, proc_map, lresults, lret>>

\* The second loop over proc_map: p.wait(timeout=remaining) within the grace
\* of one second for an entry with p.poll() None, then p.kill() if it is
\* still None. The grace is spent only in these waits.
LKill ==
    /\ lmain = "grace"
    /\ UNCHANGED notLaunch
    /\ lproc' = [c \in 1..Senders |->
                    IF c \in proc_map /\ Alive(c) THEN "signalled" ELSE lproc[c]]
    /\ lmain' = "short"
    /\ UNCHANGED <<lcams, lpc, proc_map, lresults, lexp, lret>>

\* t.join(timeout=0.5) for the threads of still_alive has returned, the
\* thread ended or not; the call returns by results.
LReturn ==
    /\ lmain = "short"
    /\ UNCHANGED notLaunch
    /\ lret' = LaunchStatus
    /\ lmain' = "timed_out"
    /\ UNCHANGED <<lcams, lpc, lproc, proc_map, lresults, lexp>>

(***************************************************************************)
(* SpecLaunch: one trigger, for any non-empty set of cameras.              *)
(***************************************************************************)
InitLaunch ==
    /\ Idle({"launch"})
    /\ lcams \in (SUBSET (1..Senders)) \ {{}}
    /\ lpc = [c \in 1..Senders |-> IF c \in lcams THEN "start" ELSE "end"]
    /\ lproc = [c \in 1..Senders |-> "none"]
    /\ proc_map = {}
    /\ lresults = [c \in 1..Senders |-> "none"]
    /\ lmain = "join"
    /\ lexp = {}
    /\ lret = -1

LaunchNext ==
    \/ \E c \in 1..Senders : TPopen(c) \/ TStore(c) \/ PExit(c) \/ TResult(c)
    \/ LJoined \/ LTimeout \/ LKill \/ LReturn

SpecLaunch == InitLaunch /\ [][LaunchNext]_vars

\* C38: when the timeout has expired while sender subprocesses were running,
\* no sender subprocess of the trigger is running once
\* launch_senders_with_suffix has returned, and it has returned failure.
C38_TimeoutStopsAll ==
    (lmain = "timed_out" /\ lexp # {}) =>
        /\ \A c \in 1..Senders : ~Alive(c)
        /\ lret = 1

=============================================================================
